---- MODULE Spec2Model ----
(***************************************************************************)
(* BioCrabs simulation core: the tick loop of index.html (food and eating, *)
(* forces, pairwise collisions, integration, wall handling, deferred       *)
(* births, death sweep), triggerReproduction of reproduction.js and the    *)
(* user actions of ui.js (tap, double tap, clone, delete, auto-breed).     *)
(*                                                                         *)
(* Numbers are fixed point.  Energies are integers in units of 1/10000     *)
(* energy point, positions, velocities, forces and thrust in units of      *)
(* 1/100 (pixel, pixel per time unit, ...), elasticity in units of 1/100.  *)
(* TIME_STEP is 1/10, so "* dt" is a division by DT_DIV.  Divisions round  *)
(* toward zero.                                                            *)
(***************************************************************************)
EXTENDS Integers, Sequences, FiniteSets, TLC

\* ---------------------------------------------------------------- bounds
\* number of creatures initPopulation creates (CONFIG.POP_SIZE, reduced)
PopSize == 2
\* ticks of the main loop that are explored
MaxTicks == 2
\* double taps and button presses that are explored
MaxUserActions == 1
\* taps that are explored
MaxTaps == 2
\* CONFIG.TARGET_SYSTEM_ENERGY, reduced so that a small population crosses it
TargetEnergy == 2100000

\* ------------------------------------------------------- CONFIG constants
MAX_ENERGY == 1000000
BASE_ENERGY == 750000
FOOD_ENERGY_VALUE == 200000
REPRO_ENERGY_THRESHOLD == 600000
\* BASAL_METABOLISM_COST 0.05 per time unit, in energy units
BASAL_METABOLISM_COST == 500
\* THRUST_ENERGY_COST 0.20 per thrust unit and time unit: 2000 energy units
\* per 1.0 thrust, i.e. 20 per thrust unit of 1/100
THRUST_ENERGY_COST == 20
\* COLLISION_ENERGY_COST_FACTOR 0.05 per unit of |j|: 500 energy units per
\* 1.0, i.e. 5 per impulse unit of 1/100
COLLISION_ENERGY_COST_FACTOR == 5
\* maxCostIntensity 2.0 in impulse units
MaxCostIntensity == 200
\* CONFIG.RESTITUTION 0.5 and COLLISION_REPULSION 0.5, in units of 1/100
RESTITUTION == 50
COLLISION_REPULSION == 50
FOOD_RADIUS == 500
\* 1 / CONFIG.TIME_STEP
DT_DIV == 10
\* viewport set by resize()
W == 9000
H == 10000

\* ------------------------------------------------------------- arithmetic
Min(a, b) == IF a <= b THEN a ELSE b

Max(a, b) == IF a >= b THEN a ELSE b

Abs(a) == IF a >= 0 THEN a ELSE -a

\* division rounding toward zero
TDiv(a, b) == IF a >= 0 THEN a \div b ELSE -((-a) \div b)

\* clamp(x, lo, hi) of util.js
clamp(x, lo, hi) == Max(lo, Min(hi, x))

RECURSIVE SqrtSearch(_, _, _)
SqrtSearch(n, lo, hi) ==
    IF lo >= hi THEN lo
    ELSE LET mid == (lo + hi + 1) \div 2
         IN IF mid * mid <= n THEN SqrtSearch(n, mid, hi)
            ELSE SqrtSearch(n, lo, mid - 1)

\* Math.sqrt, rounded down to the fixed-point grid
Sqrt(n) == SqrtSearch(n, 0, Min(n, 46340))

\* ------------------------------------------------------------------ state
VARIABLES
    population,            \* sequence of creatures
    foodPellets,           \* sequence of pellets
    crabCreationRequest,   \* <<>> or <<[x, y]>>
    newOffspringThisFrame, \* accumulator of updateMovement
    autoRepro,             \* <<>> or the pair of ids the breed timer holds
    panel,                 \* what the info panel shows and which creature its buttons hold
    pc,                    \* position of the main loop inside a tick
    ci, cj,                \* loop indices of the phase in progress
    globalTime,            \* ticks completed
    nextId,                \* next creature / pellet identity
    userActions,           \* double taps and button presses so far
    taps,                  \* taps so far
    handled,               \* ids passed to handleCrabCollision and ids born in this tick
    lastCollision,         \* record of the last handleCrabCollision call
    lastRepro,             \* record of the last triggerReproduction call
    lastRequest,           \* record of the last requestCrabCreation call
    eatLog,                \* <<creature id, pellet id>> eaten in the last food phase
    foodLog,               \* record of the last food phase
    probe                  \* a function applied on its own: inputs, position, result

vars == <<population, foodPellets, crabCreationRequest, newOffspringThisFrame,
          autoRepro, panel, pc, ci, cj, globalTime, nextId, userActions, taps,
          handled, lastCollision, lastRepro, lastRequest, eatLog, foodLog,
          probe>>

\* ------------------------------------------------------ inputs (random draws)
\* what initPopulation draws for one creature: place and genes
InitCrabs == {[x |-> 3000, y |-> 5000, radius |-> 3000, elasticity |-> 120],
              [x |-> 6000, y |-> 5000, radius |-> 3000, elasticity |-> 80],
              [x |-> 8995, y |-> 5000, radius |-> 1500, elasticity |-> 100]}

\* places spawnFoodPellet draws: one within reach of a large creature at the
\* first spot, one out of everybody's reach
PelletSpots == {<<3000, 7200>>, <<8400, 1000>>}

\* the places initPopulation draws for its pellets
InitPelletSpot(k) == IF k % 2 = 1 THEN <<3000, 7200>> ELSE <<8400, 1000>>

\* the force fields explored for one frame: every creature is driven toward
\* the vertical centre line of the world, or away from it
ForceFields == {"inward", "outward"}

\* net force and thrust the force model hands to the integrator for a creature
ForceOn(field, crab) ==
    IF (field = "inward") = (crab.x < W \div 2)
    THEN [fx |-> 1000, fy |-> 0, thrust |-> 1000]
    ELSE [fx |-> -1000, fy |-> 200, thrust |-> 1200]

\* draws inside triggerReproduction: crossover picks, mutation of the radius
\* and elasticity genes (percent), position jitter, and whether a callee throws
ReproChoices == {[fail |-> FALSE, radiusFromA |-> FALSE, elasticityFromA |-> TRUE,
                  mutRadius |-> 19, mutElasticity |-> -20, jx |-> 1499, jy |-> -1500],
                 [fail |-> TRUE, radiusFromA |-> TRUE, elasticityFromA |-> TRUE,
                  mutRadius |-> 0, mutElasticity |-> 0, jx |-> 0, jy |-> 0]}

\* rand(-0.2, 0.2) of handleWallCollision, in percent
DeflectChoices == {-20, 10}

\* draws of the deferred creation: the genes and the two rand(-5, 5)
CreationChoices == {[radius |-> 1500, elasticity |-> 80, jx |-> -500, jy |-> 300],
                    [radius |-> 3000, elasticity |-> 120, jx |-> 499, jy |-> -500]}

\* points the user taps: two creature spots and an empty corner
TapSpots == {<<3000, 5000>>, <<6000, 5000>>, <<500, 500>>}

\* points the user double-taps: the empty corner and the spot next to the wall
DoubleTapSpots == {<<500, 500>>, <<8995, 5000>>}

\* offsets cloneCrab can end with: direction times (2.5 radius + rand(0, 50))
CloneDirs == {<<1, 0>>, <<0, -1>>}

\* ------------------------------------------------------------- creatures
\* a creature object; orientation, omega and the genes that only shape the
\* force model are left to the force inputs
NewCrab(id, x, y, radius, elasticity, energy) ==
    [id |-> id, x |-> x, y |-> y, vx |-> 0, vy |-> 0,
     fx |-> 0, fy |-> 0, currentThrust |-> 0,
     radius |-> radius, elasticity |-> elasticity,
     energy |-> energy, selected |-> FALSE]

Ids(s) == {s[k].id : k \in 1..Len(s)}

IndexOf(s, id) == CHOOSE k \in 1..Len(s) : s[k].id = id

SelectedSeq(s) == SelectSeq(s, LAMBDA c : c.selected)

RECURSIVE EnergySum(_, _)
EnergySum(s, k) == IF k = 0 THEN 0 ELSE s[k].energy + EnergySum(s, k - 1)

RECURSIVE PelletSum(_, _)
PelletSum(s, k) == IF k = 0 THEN 0 ELSE s[k].energyValue + PelletSum(s, k - 1)

\* ---------------------------------------------------- triggerReproduction
IntendedCostPerParent == MAX_ENERGY \div 2

\* a parent that gives all it has, whatever the intended cost
ContributionUncapped(energy) == Max(0, energy)

Contribution(energy) == Max(0, Min(energy, IntendedCostPerParent))

\* a child born full, whatever its parents gave
FinalChildEnergyFull(ca, cb) == MAX_ENERGY

\* finalChildEnergy = Math.min(totalContribution, MAX_ENERGY)
FinalChildEnergy(ca, cb) == Min(ca + cb, MAX_ENERGY)

\* a catch block that forgets to give the contribution back
RestoredNothing(parent, c) == parent

\* the catch block: parent.energy += parent_contribution
Restored(parent, c) == [parent EXCEPT !.energy = @ + c]

\* gene of the child after crossover and mutate
ChildRadius(A, B, in) ==
    TDiv((IF in.radiusFromA THEN A.radius ELSE B.radius) * (100 + in.mutRadius), 100)

ChildElasticity(A, B, in) ==
    clamp(TDiv((IF in.elasticityFromA THEN A.elasticity ELSE B.elasticity)
                 * (100 + in.mutElasticity), 100), 80, 120)

\* result of triggerReproduction(parentA, parentB, ...): the two parents as
\* the call leaves them and the offspring (empty when the call returns null)
TriggerReproduction(A, B, in, id) ==
    LET ca == Contribution(A.energy)
        cb == Contribution(B.energy)
        finalChildEnergy == FinalChildEnergy(ca, cb)
        A1 == [A EXCEPT !.energy = @ - ca]
        B1 == [B EXCEPT !.energy = @ - cb]
        child == NewCrab(id,
                         clamp(TDiv(A.x + B.x, 2) + in.jx, 0, W),
                         clamp(TDiv(A.y + B.y, 2) + in.jy, 0, H),
                         ChildRadius(A, B, in), ChildElasticity(A, B, in),
                         finalChildEnergy)
    IN IF in.fail
       THEN [A |-> Restored(A1, ca),
             B |-> Restored(B1, cb),
             offspring |-> <<>>]
       ELSE [A |-> A1, B |-> B1, offspring |-> <<child>>]

\* what a triggerReproduction call is remembered by
ReproRecord(n, A, B, in, res) ==
    [n |-> n, threw |-> in.fail, ok |-> res.offspring # <<>>,
     idA |-> A.id, idB |-> B.id, Ea |-> A.energy, Eb |-> B.energy,
     afterA |-> res.A.energy, afterB |-> res.B.energy,
     child |-> IF res.offspring = <<>> THEN 0 ELSE res.offspring[1].energy]


\* ---------------------------------------------------- handleCrabCollision
\* broad phase: the bounding boxes intersect
BoxesIntersect(A, B) ==
    ~(\/ A.x + A.radius < B.x - B.radius
      \/ A.x - A.radius > B.x + B.radius
      \/ A.y + A.radius < B.y - B.radius
      \/ A.y - A.radius > B.y + B.radius)

DistSq(A, B) == (B.x - A.x) * (B.x - A.x) + (B.y - A.y) * (B.y - A.y)

\* narrow phase passed: handleCrabCollision goes past its early return
Colliding(A, B) ==
    /\ BoxesIntersect(A, B)
    /\ DistSq(A, B) < (A.radius + B.radius) * (A.radius + B.radius)

\* Math.sqrt(distSq) || 0.0001; with dist = 0.0001 the normal is (0, 0)
Dist(A, B) == Sqrt(DistSq(A, B))

\* v * nx for a vector (dx, dy) / dist; 0 when the centres coincide
AlongNormalX(v, A, B) ==
    IF DistSq(A, B) = 0 THEN 0 ELSE TDiv(v * (B.x - A.x), Dist(A, B))

AlongNormalY(v, A, B) ==
    IF DistSq(A, B) = 0 THEN 0 ELSE TDiv(v * (B.y - A.y), Dist(A, B))

\* rvx * nx + rvy * ny, before the division by dist: same sign as approach
ApproachDot(A, B) ==
    (B.vx - A.vx) * (B.x - A.x) + (B.vy - A.vy) * (B.y - A.y)

Approach(A, B) ==
    IF DistSq(A, B) = 0 THEN 0 ELSE TDiv(ApproachDot(A, B), Dist(A, B))

\* an impulse that ignores the restitution: j = -approach * 0.5
ImpulseInelastic(A, B) ==
    IF ApproachDot(A, B) < 0 THEN TDiv(-Approach(A, B), 2) ELSE 0

\* j = -(1 + e) * approach * 0.5 with e = RESTITUTION * avgElasticity;
\* 0 when approach >= 0
Impulse(A, B) ==
    IF ApproachDot(A, B) < 0
    THEN TDiv((2 * 100 * 100 + RESTITUTION * (A.elasticity + B.elasticity))
                 * (-Approach(A, B)), 4 * 100 * 100)
    ELSE 0

\* a positional correction applied only to pairs that close in
PushIfApproaching(A, B) ==
    IF ApproachDot(A, B) < 0
    THEN TDiv(COLLISION_REPULSION * (A.radius + B.radius
                - (IF DistSq(A, B) = 0 THEN 0 ELSE Dist(A, B))), 2 * 100)
    ELSE 0

\* push = COLLISION_REPULSION * overlap / 2
Push(A, B) ==
    TDiv(COLLISION_REPULSION * (A.radius + B.radius
            - (IF DistSq(A, B) = 0 THEN 0 ELSE Dist(A, B))), 2 * 100)

CollisionCost(j) == COLLISION_ENERGY_COST_FACTOR * Min(Abs(j), MaxCostIntensity)

\* a gate that one rich creature is enough to open
ReproGateEither(A, B) ==
    A.energy >= REPRO_ENERGY_THRESHOLD \/ B.energy >= REPRO_ENERGY_THRESHOLD

\* the reproduction gate of handleCrabCollision
ReproGate(A, B) ==
    A.energy >= REPRO_ENERGY_THRESHOLD /\ B.energy >= REPRO_ENERGY_THRESHOLD

\* velocities and positions after the impulse and the positional correction
AfterImpact(A, B) ==
    LET j == Impulse(A, B)
        impx == AlongNormalX(j, A, B)
        impy == AlongNormalY(j, A, B)
        push == Push(A, B)
        px == AlongNormalX(push, A, B)
        py == AlongNormalY(push, A, B)
    IN [A |-> [A EXCEPT !.vx = @ - impx, !.vy = @ - impy,
                        !.x = @ - px, !.y = @ - py],
        B |-> [B EXCEPT !.vx = @ + impx, !.vy = @ + impy,
                        !.x = @ + px, !.y = @ + py]]

\* handleCrabCollision(A, B, offspringAccumulator): both creatures after the
\* call, what it appends to the accumulator, and the branch it took
HandleCrabCollision(A, B, in, id) ==
    IF ~Colliding(A, B)
    THEN [A |-> A, B |-> B, offspring |-> <<>>, branch |-> "apart", j |-> 0]
    ELSE LET j == Impulse(A, B)
             m == AfterImpact(A, B)
         IN IF ReproGate(m.A, m.B)
            THEN LET r == TriggerReproduction(m.A, m.B, in, id)
                 IN [A |-> r.A, B |-> r.B, offspring |-> r.offspring,
                     branch |-> "repro", j |-> j]
            ELSE IF ApproachDot(A, B) < 0 /\ CollisionCost(j) > 0
            THEN [A |-> [m.A EXCEPT !.energy = Max(0, @ - CollisionCost(j))],
                  B |-> [m.B EXCEPT !.energy = Max(0, @ - CollisionCost(j))],
                  offspring |-> <<>>, branch |-> "cost", j |-> j]
            ELSE [A |-> m.A, B |-> m.B, offspring |-> <<>>,
                  branch |-> "free", j |-> j]

\* ------------------------------------------------------- population.sort
RECURSIVE InsertByX(_, _)
InsertByX(s, c) ==
    IF s = <<>> THEN <<c>>
    ELSE IF s[Len(s)].x <= c.x THEN Append(s, c)
    ELSE Append(InsertByX(SubSeq(s, 1, Len(s) - 1), c), s[Len(s)])

RECURSIVE SortByX(_, _)
\* population.sort((a, b) => a.x - b.x): stable, ascending x
SortByX(s, k) ==
    IF k = 0 THEN <<>> ELSE InsertByX(SortByX(s, k - 1), s[k])

\* the early exit of the inner loop of updateMovement
TooFarRight(A, B) == B.x - B.radius > A.x + A.radius


\* ---------------------------------------------------- updateFoodAndEating
NewPellet(id, x, y, energyValue) ==
    [id |-> id, x |-> x, y |-> y, energyValue |-> energyValue]

\* currentLivingEnergy
LivingEnergy(pop, pellets) ==
    EnergySum(pop, Len(pop)) + PelletSum(pellets, Len(pellets))

\* a spawn test that also fires at the target
ShouldSpawnAtTarget(total) == total <= TargetEnergy

\* a spawn in every tick, whatever the total
ShouldSpawnAlways(total) == TRUE

\* currentLivingEnergy < targetEnergy
ShouldSpawn(total) == total < TargetEnergy

\* broad phase then narrow phase of the eating test
Reaches(crab, food) ==
    /\ ~(\/ crab.x + crab.radius < food.x - FOOD_RADIUS
         \/ crab.x - crab.radius > food.x + FOOD_RADIUS
         \/ crab.y + crab.radius < food.y - FOOD_RADIUS
         \/ crab.y - crab.radius > food.y + FOOD_RADIUS)
    /\ (crab.x - food.x) * (crab.x - food.x) + (crab.y - food.y) * (crab.y - food.y)
         < (crab.radius + FOOD_RADIUS) * (crab.radius + FOOD_RADIUS)

\* a splice that removes nothing
RemoveNone(s, k) == s

\* foodPellets.splice(j, 1)
RemoveAt(s, k) == SubSeq(s, 1, k - 1) \o SubSeq(s, k + 1, Len(s))

\* the inner loop: pellets are scanned from the last one down
RECURSIVE FirstReached(_, _, _)
FirstReached(crab, pellets, j) ==
    IF j = 0 THEN 0
    ELSE IF Reaches(crab, pellets[j]) THEN j
    ELSE FirstReached(crab, pellets, j - 1)

\* an eater that keeps all of the pellet
FedUncapped(energy, value) == energy + value

\* crab.energy += food.energyValue; crab.energy = Math.min(crab.energy, MAX_ENERGY)
Fed(energy, value) == Min(energy + value, MAX_ENERGY)

\* the outer loop from creature i down to the first one
RECURSIVE EatingLoop(_, _, _, _)
EatingLoop(pop, pellets, log, i) ==
    IF i = 0 THEN [population |-> pop, foodPellets |-> pellets, eatLog |-> log]
    ELSE LET crab == pop[i]
             j == FirstReached(crab, pellets, Len(pellets))
         IN IF j = 0 THEN EatingLoop(pop, pellets, log, i - 1)
            ELSE EatingLoop(
                   [pop EXCEPT ![i].energy = Fed(@, pellets[j].energyValue)],
                   RemoveAt(pellets, j),
                   log \cup {<<crab.id, pellets[j].id>>},
                   i - 1)

\* ------------------------------------------------- handleDeathsAndCulling
\* a sweep that also culls the population down to its initial size
SurvivorsCapped(pop) ==
    LET alive == SelectSeq(pop, LAMBDA c : ~(c.energy <= 0))
    IN SubSeq(alive, 1, Min(Len(alive), PopSize))

\* what the backward sweep leaves: splice(i, 1) for every energy <= 0
Survivors(pop) == SelectSeq(pop, LAMBDA c : ~(c.energy <= 0))

\* ---------------------------------------------- integrateCrab, walls
\* an integration that charges no metabolic cost
IntegrateCrabFree(crab) ==
    LET vx == crab.vx + TDiv(crab.fx, DT_DIV)
        vy == crab.vy + TDiv(crab.fy, DT_DIV)
    IN [crab EXCEPT !.vx = vx, !.vy = vy,
                    !.x = @ + TDiv(vx, DT_DIV), !.y = @ + TDiv(vy, DT_DIV),
                    !.currentThrust = 0]

\* integrateCrab for finite inputs: velocity, position, metabolic cost
IntegrateCrab(crab) ==
    LET vx == crab.vx + TDiv(crab.fx, DT_DIV)
        vy == crab.vy + TDiv(crab.fy, DT_DIV)
        cost == TDiv(BASAL_METABOLISM_COST
                       + crab.currentThrust * THRUST_ENERGY_COST, DT_DIV)
    IN [crab EXCEPT !.vx = vx, !.vy = vy,
                    !.x = @ + TDiv(vx, DT_DIV), !.y = @ + TDiv(vy, DT_DIV),
                    !.energy = @ - cost, !.currentThrust = 0]

\* e = RESTITUTION * waterEdgeEffect (0.7) * elasticity, in units of 1/10000
WallRestitution(crab) == TDiv(RESTITUTION * 70 * crab.elasticity, 100)

\* a wall that sends the creature back at full speed
ReflectFull(crab, v) == -v

Reflect(crab, v) == -TDiv(WallRestitution(crab) * v, 10000)

Deflection(d, v) == TDiv(d * Abs(v), 100)

\* the x part of handleWallCollision, d the draw of rand(-0.2, 0.2)
WallX(crab, d) ==
    IF crab.x < 0
    THEN IF crab.vx < 0
         THEN [crab EXCEPT !.x = 0, !.vy = @ + Deflection(d, crab.vx),
                           !.vx = Reflect(crab, crab.vx)]
         ELSE [crab EXCEPT !.x = 0]
    ELSE IF crab.x > W
    THEN IF crab.vx > 0
         THEN [crab EXCEPT !.x = W, !.vy = @ + Deflection(d, crab.vx),
                           !.vx = Reflect(crab, crab.vx)]
         ELSE [crab EXCEPT !.x = W]
    ELSE crab

\* the y part of handleWallCollision
WallY(crab, d) ==
    IF crab.y < 0
    THEN IF crab.vy < 0
         THEN [crab EXCEPT !.y = 0, !.vx = @ + Deflection(d, crab.vy),
                           !.vy = Reflect(crab, crab.vy)]
         ELSE [crab EXCEPT !.y = 0]
    ELSE IF crab.y > H
    THEN IF crab.vy > 0
         THEN [crab EXCEPT !.y = H, !.vx = @ + Deflection(d, crab.vy),
                           !.vy = Reflect(crab, crab.vy)]
         ELSE [crab EXCEPT !.y = H]
    ELSE crab

HandleWallCollision(crab, d1, d2) == WallY(WallX(crab, d1), d2)


\* ------------------------------------------------------------------- Init
\* initialFoodCount of initPopulation
InitialFoodCount == (3 * (TargetEnergy \div (FOOD_ENERGY_VALUE * 2))) \div 4

NoneHandled == [ids |-> {}, born |-> {}]

NoCollision ==
    [a |-> 0, b |-> 0, branch |-> "none", j |-> 0, overlap |-> FALSE,
     approaching |-> FALSE, threw |-> FALSE, Ea |-> 0, Eb |-> 0,
     afterA |-> 0, afterB |-> 0]

NoRepro ==
    [n |-> 0, threw |-> FALSE, ok |-> FALSE, idA |-> 0, idB |-> 0, Ea |-> 0, Eb |-> 0,
     afterA |-> 0, afterB |-> 0, child |-> 0]

NoFood == [total |-> 0, spawned |-> FALSE, offered |-> <<>>]

NoPanel == [kind |-> "none", id |-> 0, body |-> <<>>]

NoProbe == [fn |-> "none"]

NoRequest == [x |-> 0, y |-> 0, pending |-> FALSE]

\* initPopulation, then initUI; the loop has not run yet
Init ==
    /\ \E start \in [1..PopSize -> InitCrabs] :
         population = [k \in 1..PopSize |->
                          NewCrab(k, start[k].x, start[k].y, start[k].radius,
                                  start[k].elasticity, BASE_ENERGY)]
    /\ foodPellets = [k \in 1..InitialFoodCount |->
                          NewPellet(PopSize + k, InitPelletSpot(k)[1],
                                    InitPelletSpot(k)[2], FOOD_ENERGY_VALUE)]
    /\ crabCreationRequest = <<>>
    /\ newOffspringThisFrame = <<>>
    /\ autoRepro = <<>>
    /\ panel = NoPanel
    /\ pc = "idle"
    /\ ci = 1
    /\ cj = 1
    /\ globalTime = 0
    /\ nextId = PopSize + InitialFoodCount + 1
    /\ userActions = 0
    /\ taps = 0
    /\ handled = NoneHandled
    /\ lastCollision = NoCollision
    /\ lastRepro = NoRepro
    /\ lastRequest = NoRequest
    /\ eatLog = {}
    /\ foodLog = NoFood
    /\ probe = NoProbe

\* --------------------------------------------------------------- ui.js
DeselectAll(pop) == [k \in 1..Len(pop) |-> [pop[k] EXCEPT !.selected = FALSE]]

SelCount(pop) == Len(SelectedSeq(pop))

\* updateInfoPanel: the panel it renders for this population
PanelFor(pop) ==
    LET sel == SelectedSeq(pop)
    IN IF Len(sel) = 1 THEN [kind |-> "one", id |-> sel[1].id, body |-> <<>>]
       ELSE IF Len(sel) >= 2 THEN [kind |-> "two", id |-> 0, body |-> <<>>]
       ELSE NoPanel

\* updateInfoPanel: the breed timer it starts (two or more selected) or clears
TimerFor(pop) ==
    LET sel == SelectedSeq(pop)
    IN IF Len(sel) >= 2 THEN <<sel[1].id, sel[2].id>> ELSE <<>>

\* the creature handleTap finds under the point, 0 if none
ClickedCrab(pop, pt) ==
    LET hit == {k \in 1..Len(pop) :
                  4 * ((pt[1] - pop[k].x) * (pt[1] - pop[k].x)
                       + (pt[2] - pop[k].y) * (pt[2] - pop[k].y))
                    <= 9 * pop[k].radius * pop[k].radius}
    IN IF hit = {} THEN 0 ELSE CHOOSE k \in hit : \A m \in hit : k <= m

\* handleDoubleTap: the point lies on a creature
OnCrab(pop, pt) ==
    \E k \in 1..Len(pop) :
        (pt[1] - pop[k].x) * (pt[1] - pop[k].x)
          + (pt[2] - pop[k].y) * (pt[2] - pop[k].y)
            <= pop[k].radius * pop[k].radius

UserTurn == pc = "idle" /\ userActions < MaxUserActions

TapTurn == pc = "idle" /\ taps < MaxTaps

Frame == <<foodPellets, newOffspringThisFrame, pc, ci, cj, globalTime, handled,
           lastCollision, eatLog, foodLog, probe>>

Taps == <<taps>>

\* a tap that selects the creature under it however many are selected
TappedNoLimit(pop, pt) ==
    LET k == ClickedCrab(pop, pt)
    IN IF k # 0
       THEN IF pop[k].selected THEN [pop EXCEPT ![k].selected = FALSE]
            ELSE [pop EXCEPT ![k].selected = TRUE]
       ELSE IF SelCount(pop) > 0 THEN DeselectAll(pop) ELSE pop

\* population after handleTap at point pt
Tapped(pop, pt) ==
    LET k == ClickedCrab(pop, pt)
    IN IF k # 0
       THEN IF pop[k].selected THEN [pop EXCEPT ![k].selected = FALSE]
            ELSE IF SelCount(pop) < 2 THEN [pop EXCEPT ![k].selected = TRUE]
            ELSE [DeselectAll(pop) EXCEPT ![k].selected = TRUE]
       ELSE IF SelCount(pop) > 0 THEN DeselectAll(pop) ELSE pop

HandleTap ==
    /\ TapTurn
    /\ \E pt \in TapSpots :
         /\ Tapped(population, pt) # population
         /\ population' = Tapped(population, pt)
    /\ panel' = PanelFor(population')
    /\ autoRepro' = TimerFor(population')
    /\ taps' = taps + 1
    /\ UNCHANGED <<Frame, crabCreationRequest, nextId, lastRepro, userActions, lastRequest>>

\* a request that replaces the pending one
RequestCrabCreationLatest(req, x, y) == <<[x |-> x, y |-> y]>>

\* requestCrabCreation(x, y)
RequestCrabCreation(req, x, y) ==
    IF req = <<>> THEN <<[x |-> x, y |-> y]>> ELSE req

\* handleDoubleTap(event) on an empty place; a call that finds the slot
\* taken changes nothing in the program and is not counted
HandleDoubleTap ==
    /\ pc = "idle"
    /\ crabCreationRequest = <<>> => userActions < MaxUserActions
    /\ \E pt \in DoubleTapSpots :
         /\ ~OnCrab(population, pt)
         /\ crabCreationRequest' =
              RequestCrabCreation(crabCreationRequest, pt[1], pt[2])
         /\ lastRequest' = [x |-> pt[1], y |-> pt[2],
                            pending |-> crabCreationRequest # <<>>]
    /\ userActions' = IF crabCreationRequest = <<>> THEN userActions + 1
                      ELSE userActions
    /\ UNCHANGED <<Frame, population, autoRepro, panel, nextId, lastRepro, taps>>

\* the creature object the panel buttons hold
PanelCrab ==
    IF panel.body # <<>> THEN panel.body[1]
    ELSE population[IndexOf(population, panel.id)]

\* cloneCrab(originalCrab): the new creature
Clone(orig, dir, id) ==
    LET distance == TDiv(25 * orig.radius, 10)
    IN NewCrab(id,
               clamp(orig.x + dir[1] * distance, orig.radius, W - orig.radius),
               clamp(orig.y + dir[2] * distance, orig.radius, H - orig.radius),
               orig.radius, orig.elasticity, BASE_ENERGY)

\* the population with the panel creature changed by f, if it still lives
WithPanelCrab(pop, energy, selected) ==
    IF panel.body # <<>> THEN pop
    ELSE [pop EXCEPT ![IndexOf(pop, panel.id)].energy = energy,
                     ![IndexOf(pop, panel.id)].selected = selected]

CloneCrab ==
    /\ UserTurn
    /\ panel.kind = "one"
    /\ \E dir \in CloneDirs :
         population' = Append(WithPanelCrab(population, PanelCrab.energy, FALSE),
                              Clone(PanelCrab, dir, nextId))
    /\ nextId' = nextId + 1
    /\ panel' = PanelFor(population')
    /\ autoRepro' = TimerFor(population')
    /\ userActions' = userActions + 1
    /\ UNCHANGED <<Frame, crabCreationRequest, lastRepro, taps, lastRequest>>

DeleteCrab ==
    /\ UserTurn
    /\ panel.kind = "one"
    /\ population' = WithPanelCrab(population, 0, FALSE)
    /\ panel' = PanelFor(population')
    /\ autoRepro' = TimerFor(population')
    /\ userActions' = userActions + 1
    /\ UNCHANGED <<Frame, crabCreationRequest, nextId, lastRepro, taps, lastRequest>>

\* the cancel button of the two-selected panel
CancelBreed ==
    /\ UserTurn
    /\ panel.kind = "two"
    /\ population' = DeselectAll(population)
    /\ panel' = PanelFor(population')
    /\ autoRepro' = TimerFor(population')
    /\ userActions' = userActions + 1
    /\ UNCHANGED <<Frame, crabCreationRequest, nextId, lastRepro, taps, lastRequest>>

\* the 1.5 s timer of triggerAutoReproductionWithTimeout fires and breeds
AutoReproBreed ==
    /\ pc = "idle"
    /\ autoRepro # <<>>
    /\ SelCount(population) >= 2
    /\ autoRepro[1] \in Ids(population) /\ autoRepro[2] \in Ids(population)
    /\ \E in \in ReproChoices :
         LET a == IndexOf(population, autoRepro[1])
             b == IndexOf(population, autoRepro[2])
             r == TriggerReproduction(population[a], population[b], in, nextId)
         IN /\ population' =
                 DeselectAll([population EXCEPT ![a] = r.A, ![b] = r.B]
                               \o r.offspring)
            /\ lastRepro' =
                 ReproRecord(lastRepro.n + 1, population[a], population[b], in, r)
            /\ nextId' = nextId + Len(r.offspring)
    /\ panel' = PanelFor(population')
    /\ autoRepro' = TimerFor(population')
    /\ UNCHANGED <<Frame, crabCreationRequest, userActions, taps, lastRequest>>

\* ------------------------------------------------------------- mainLoop
Ui == <<autoRepro, userActions, taps, lastRequest, probe>>

\* the dead creature stays in the hands of the panel buttons
PanelAfterSweep(pop) ==
    IF panel.kind = "one" /\ panel.body = <<>> /\ panel.id \notin Ids(Survivors(pop))
    THEN [panel EXCEPT !.body = <<pop[IndexOf(pop, panel.id)]>>]
    ELSE panel

\* a frame that runs the pair collisions before any force is accumulated
PhaseAfterCollideFirst(p) ==
    CASE p = "idle" -> "food"
      [] p = "food" -> "sort"
      [] p = "sort" -> "collide"
      [] p = "collide" -> "integrate"
      [] p = "integrate" -> "deaths"
      [] OTHER -> "idle"

\* the order of the calls in mainLoop (updateFoodAndEating, updateMovement,
\* handleDeathsAndCulling) and of the loops inside updateMovement (forces,
\* sort, pair collisions, integration with wall handling)
PhaseAfter(p) ==
    CASE p = "idle" -> "food"
      [] p = "food" -> "forces"
      [] p = "forces" -> "sort"
      [] p = "sort" -> "collide"
      [] p = "collide" -> "integrate"
      [] p = "integrate" -> "deaths"
      [] OTHER -> "idle"

\* mainLoop up to the call of updateFoodAndEating: the deferred creation
MainLoopStart ==
    /\ pc = "idle"
    /\ globalTime < MaxTicks
    /\ IF crabCreationRequest # <<>>
       THEN /\ \E d \in CreationChoices :
                 population' = Append(population,
                     NewCrab(nextId,
                             clamp(crabCreationRequest[1].x + d.jx, 0, W),
                             clamp(crabCreationRequest[1].y + d.jy, 0, H),
                             d.radius, d.elasticity, BASE_ENERGY))
            /\ nextId' = nextId + 1
       ELSE UNCHANGED <<population, nextId>>
    /\ crabCreationRequest' = <<>>
    /\ pc' = PhaseAfter(pc)
    /\ UNCHANGED <<foodPellets, newOffspringThisFrame, ci, cj, globalTime,
                   handled, lastCollision, lastRepro, eatLog, foodLog, panel, Ui>>

\* updateFoodAndEating()
UpdateFoodAndEating ==
    /\ pc = "food"
    /\ LET total == LivingEnergy(population, foodPellets)
       IN \E spot \in PelletSpots :
            LET spawned == ShouldSpawn(total)
                pellets == IF spawned
                           THEN Append(foodPellets,
                                       NewPellet(nextId, spot[1], spot[2],
                                                 FOOD_ENERGY_VALUE))
                           ELSE foodPellets
                r == EatingLoop(population, pellets, {}, Len(population))
            IN /\ population' = r.population
               /\ foodPellets' = r.foodPellets
               /\ eatLog' = r.eatLog
               /\ foodLog' = [total |-> total, spawned |-> spawned,
                               offered |-> pellets]
               /\ nextId' = IF spawned THEN nextId + 1 ELSE nextId
    /\ pc' = PhaseAfter(pc)
    /\ UNCHANGED <<crabCreationRequest, newOffspringThisFrame, ci, cj, globalTime,
                   handled, lastCollision, lastRepro, panel, Ui>>

\* first loop of updateMovement: applyLimbForces, applyQuadraticDrag and
\* applyGravityForce for every creature
ApplyForces ==
    /\ pc = "forces"
    /\ \E field \in ForceFields :
         population' = [k \in 1..Len(population) |->
                          [population[k] EXCEPT
                             !.fx = ForceOn(field, population[k]).fx,
                             !.fy = ForceOn(field, population[k]).fy,
                             !.currentThrust = ForceOn(field, population[k]).thrust]]
    /\ pc' = PhaseAfter(pc)
    /\ UNCHANGED <<foodPellets, crabCreationRequest, newOffspringThisFrame, ci,
                   cj, globalTime, nextId, handled, lastCollision, lastRepro,
                   eatLog, foodLog, panel, Ui>>

\* population.sort by x, then the pair loops start
SortPopulation ==
    /\ pc = "sort"
    /\ population' = SortByX(population, Len(population))
    /\ pc' = PhaseAfter(pc)
    /\ ci' = 1
    /\ cj' = 2
    /\ handled' = NoneHandled
    /\ UNCHANGED <<foodPellets, crabCreationRequest, newOffspringThisFrame,
                   globalTime, nextId, lastCollision, lastRepro, eatLog,
                   foodLog, panel, Ui>>

\* a pair loop that puts the newborn into the population at once
AfterCollisionWithBirth(pop, i, j, r) ==
    [pop EXCEPT ![i] = r.A, ![j] = r.B] \o r.offspring

\* the population after handleCrabCollision(crabA, crabB, accumulator): the
\* two creatures are changed in place, the list is not
AfterCollision(pop, i, j, r) == [pop EXCEPT ![i] = r.A, ![j] = r.B]

\* one pass of the inner loop that reaches handleCrabCollision
CollidePair ==
    /\ pc = "collide"
    /\ ci <= Len(population)
    /\ cj <= Len(population)
    /\ ~TooFarRight(population[ci], population[cj])
    /\ \E in \in ReproChoices :
         LET A == population[ci]
             B == population[cj]
             r == HandleCrabCollision(A, B, in, nextId)
         IN /\ population' = AfterCollision(population, ci, cj, r)
            /\ newOffspringThisFrame' = newOffspringThisFrame \o r.offspring
            /\ nextId' = nextId + Len(r.offspring)
            /\ lastCollision' =
                 [a |-> A.id, b |-> B.id, branch |-> r.branch, j |-> r.j,
                  overlap |-> Colliding(A, B),
                  approaching |-> ApproachDot(A, B) < 0,
                  threw |-> in.fail,
                  Ea |-> A.energy, Eb |-> B.energy,
                  afterA |-> r.A.energy, afterB |-> r.B.energy]
            /\ lastRepro' =
                 IF r.branch = "repro"
                 THEN ReproRecord(lastRepro.n + 1, AfterImpact(A, B).A,
                                  AfterImpact(A, B).B, in, r)
                 ELSE lastRepro
            /\ handled' = [ids |-> handled.ids \cup {A.id, B.id},
                            born |-> handled.born \cup Ids(r.offspring)]
    /\ cj' = cj + 1
    /\ UNCHANGED <<foodPellets, crabCreationRequest, pc, ci, globalTime,
                   eatLog, foodLog, panel, Ui>>

\* the inner loop ends, by the early exit or at the end of the list
NextOuter ==
    /\ pc = "collide"
    /\ ci <= Len(population)
    /\ \/ cj > Len(population)
       \/ /\ cj <= Len(population)
          /\ TooFarRight(population[ci], population[cj])
    /\ ci' = ci + 1
    /\ cj' = ci + 2
    /\ UNCHANGED <<population, foodPellets, crabCreationRequest,
                   newOffspringThisFrame, pc, globalTime, nextId, handled,
                   lastCollision, lastRepro, eatLog, foodLog, panel, Ui>>

\* the pair loops are over; the integration loop starts
CollisionsDone ==
    /\ pc = "collide"
    /\ ci > Len(population)
    /\ pc' = PhaseAfter(pc)
    /\ ci' = 1
    /\ UNCHANGED <<population, foodPellets, crabCreationRequest,
                   newOffspringThisFrame, cj, globalTime, nextId, handled,
                   lastCollision, lastRepro, eatLog, foodLog, panel, Ui>>

\* integrateCrab(crab); handleWallCollision(crab) for creature ci
IntegrateAndWall ==
    /\ pc = "integrate"
    /\ ci <= Len(population)
    /\ \E d1 \in DeflectChoices, d2 \in DeflectChoices :
         population' = [population EXCEPT
                          ![ci] = HandleWallCollision(IntegrateCrab(@), d1, d2)]
    /\ ci' = ci + 1
    /\ UNCHANGED <<foodPellets, crabCreationRequest, newOffspringThisFrame, pc,
                   cj, globalTime, nextId, handled, lastCollision, lastRepro,
                   eatLog, foodLog, panel, Ui>>

\* the deferred population change at the end of updateMovement
AddOffspring ==
    /\ pc = "integrate"
    /\ ci > Len(population)
    /\ population' = population \o newOffspringThisFrame
    /\ newOffspringThisFrame' = <<>>
    /\ pc' = PhaseAfter(pc)
    /\ UNCHANGED <<foodPellets, crabCreationRequest, ci, cj, globalTime, nextId,
                   handled, lastCollision, lastRepro, eatLog, foodLog, panel, Ui>>

\* handleDeathsAndCulling(); the frame ends and the next one is scheduled
HandleDeathsAndCulling ==
    /\ pc = "deaths"
    /\ population' = Survivors(population)
    /\ panel' = PanelAfterSweep(population)
    /\ pc' = PhaseAfter(pc)
    /\ globalTime' = globalTime + 1
    /\ UNCHANGED <<foodPellets, crabCreationRequest, newOffspringThisFrame, ci,
                   cj, nextId, handled, lastCollision, lastRepro, eatLog,
                   foodLog, Ui>>

Next ==
    \/ HandleTap
    \/ HandleDoubleTap
    \/ CloneCrab
    \/ DeleteCrab
    \/ CancelBreed
    \/ AutoReproBreed
    \/ MainLoopStart
    \/ UpdateFoodAndEating
    \/ ApplyForces
    \/ SortPopulation
    \/ CollidePair
    \/ NextOuter
    \/ CollisionsDone
    \/ IntegrateAndWall
    \/ AddOffspring
    \/ HandleDeathsAndCulling

Spec == Init /\ [][Next]_vars

\* the main loop alone, no user events
NextSim ==
    \/ MainLoopStart
    \/ UpdateFoodAndEating
    \/ ApplyForces
    \/ SortPopulation
    \/ CollidePair
    \/ NextOuter
    \/ CollisionsDone
    \/ IntegrateAndWall
    \/ AddOffspring
    \/ HandleDeathsAndCulling

SpecSim == Init /\ [][NextSim]_vars

\* ------------------------------------------------------------ type check
TypeOK ==
    /\ pc \in {"idle", "food", "forces", "sort", "collide", "integrate", "deaths"}
    /\ Len(crabCreationRequest) <= 1
    /\ autoRepro # <<>> =>
         (SelCount(population) >= 2 =>
            {autoRepro[1], autoRepro[2]} =
               {c.id : c \in {population[k] : k \in
                    {k \in 1..Len(population) : population[k].selected}}})


\* ------------------------------------------- triggerReproduction on its own
\* energies two selected creatures can have when the breed timer fires
EnergyGrid == {0, 125000, 499900, 500000, 600000, 750000, 1000000}

\* two creatures selected by two taps, the breed timer running
InitRepro ==
    /\ \E ea \in EnergyGrid, eb \in EnergyGrid :
         population =
           << [NewCrab(1, 3000, 5000, 3000, 120, ea) EXCEPT !.selected = TRUE],
              [NewCrab(2, 6000, 5000, 3000, 80, eb) EXCEPT !.selected = TRUE] >>
    /\ foodPellets = <<>>
    /\ crabCreationRequest = <<>>
    /\ newOffspringThisFrame = <<>>
    /\ autoRepro = <<1, 2>>
    /\ panel = [kind |-> "two", id |-> 0, body |-> <<>>]
    /\ pc = "idle"
    /\ ci = 1
    /\ cj = 1
    /\ globalTime = 0
    /\ nextId = 3
    /\ userActions = 0
    /\ taps = 2
    /\ handled = NoneHandled
    /\ lastCollision = NoCollision
    /\ lastRepro = NoRepro
    /\ lastRequest = NoRequest
    /\ eatLog = {}
    /\ foodLog = NoFood
    /\ probe = NoProbe

NextRepro == AutoReproBreed

SpecRepro == InitRepro /\ [][NextRepro]_vars

\* --------------------------------------- one creature through one frame
\* A JavaScript value of a numeric field: a finite number on the fixed-point
\* grid, NaN, +Infinity or -Infinity, or a value whose typeof is not 'number'.
Num(v) == [k |-> "num", v |-> v]

NaN == [k |-> "nan", v |-> 0]

Inf(sign) == [k |-> "inf", v |-> sign]

Undef == [k |-> "undef", v |-> 0]

Sign(n) == IF n > 0 THEN 1 ELSE IF n < 0 THEN -1 ELSE 0

\* typeof v === 'number'
IsNumber(a) == a.k # "undef"

\* isNaN(v) for a value of type number
IsNaN(a) == a.k = "nan"

Finite(a) == a.k = "num"

\* a + b
XAdd(a, b) ==
    IF a.k = "nan" \/ b.k = "nan" THEN NaN
    ELSE IF a.k = "inf" /\ b.k = "inf" THEN (IF a.v = b.v THEN a ELSE NaN)
    ELSE IF a.k = "inf" THEN a
    ELSE IF b.k = "inf" THEN b
    ELSE Num(a.v + b.v)

\* a * (n / d) for a finite factor n / d, d > 0
XMulDiv(a, n, d) ==
    IF a.k = "nan" THEN NaN
    ELSE IF a.k = "inf" THEN (IF n = 0 THEN NaN ELSE Inf(a.v * Sign(n)))
    ELSE Num(TDiv(a.v * n, d))

\* a / b, the quotient scaled by s; b is not zero
XDiv(a, b, s) ==
    IF a.k = "nan" \/ b.k = "nan" THEN NaN
    ELSE IF a.k = "inf" /\ b.k = "inf" THEN NaN
    ELSE IF a.k = "inf" THEN Inf(a.v * Sign(b.v))
    ELSE IF b.k = "inf" THEN Num(0)
    ELSE Num(TDiv(a.v * s * Sign(b.v), Abs(b.v)))

\* Math.abs(a)
XAbs(a) == IF a.k = "inf" THEN Inf(1) ELSE IF a.k = "num" THEN Num(Abs(a.v)) ELSE a

\* a < n and a > n for a finite n: false for NaN
XLt(a, n) == (a.k = "num" /\ a.v < n) \/ (a.k = "inf" /\ a.v < 0)

XGt(a, n) == (a.k = "num" /\ a.v > n) \/ (a.k = "inf" /\ a.v > 0)

\* 2 * Math.PI and omegaLimit in units of 1/10000 rad
TWO_PI == 62832
OmegaLimit == 80000
TORQUE_MULTIPLIER == 20

\* the remainder operator of JavaScript: the result has the sign of the dividend
JsRem(a, m) == IF a >= 0 THEN a % m ELSE -((-a) % m)

\* a % m for a finite m > 0
XRem(a, m) == IF a.k = "num" THEN Num(JsRem(a.v, m)) ELSE NaN

propsToCheck ==
    <<"x", "y", "vx", "vy", "omega", "orientation", "fx", "fy", "torque", "inertia">>

\* first check of integrateCrab: the first property whose typeof is not 'number'
RECURSIVE FirstNotNumber(_, _)
FirstNotNumber(crab, k) ==
    IF k > Len(propsToCheck) THEN "none"
    ELSE IF ~IsNumber(crab[propsToCheck[k]]) THEN propsToCheck[k]
    ELSE FirstNotNumber(crab, k + 1)

\* second check of integrateCrab
AnyNaN(crab) == \E k \in 1..Len(propsToCheck) : IsNaN(crab[propsToCheck[k]])

\* Math.min(1, Math.sqrt(vx * vx + vy * vy) / 10), in percent
SpeedFactor(crab) ==
    IF crab.vx.k = "inf" \/ crab.vy.k = "inf" THEN 100
    ELSE Min(100, TDiv(Sqrt(crab.vx.v * crab.vx.v + crab.vy.v * crab.vy.v), 10))

\* crab._inertia || 1
InertiaOrOne(crab) == IF crab.inertia = Num(0) THEN Num(1) ELSE crab.inertia

\* alpha = torque / (inertia || 1) with torque = _torque * TORQUE_MULTIPLIER *
\* torque-efficiency gene * (0.7 + 0.3 * speedFactor), in 1/10000 rad
Alpha(crab) ==
    XDiv(XMulDiv(crab.torque,
                 TORQUE_MULTIPLIER * crab.torqueEff * (70 + TDiv(30 * SpeedFactor(crab), 100)),
                 10000),
         InertiaOrOne(crab), 100)

\* the clamp of omega to +-omegaLimit; NaN passes the comparison and stays
ClampOmega(w) ==
    IF XGt(XAbs(w), OmegaLimit)
    THEN (IF w.k = "inf" THEN Num(w.v * OmegaLimit) ELSE Num(Sign(w.v) * OmegaLimit))
    ELSE w

\* the condition under which integrateCrab returns before integrating
GuardStops(crab) == FirstNotNumber(crab, 1) # "none" \/ AnyNaN(crab)

\* integrateCrab(crab) on JavaScript values
integrateCrab(crab) ==
    IF FirstNotNumber(crab, 1) # "none"
    THEN [crab EXCEPT !.fx = Num(0), !.fy = Num(0), !.torque = Num(0),
                      !.inertia = IF FirstNotNumber(crab, 1) = "inertia"
                                  THEN @ ELSE Num(1)]
    ELSE IF GuardStops(crab)
    THEN [crab EXCEPT !.fx = Num(0), !.fy = Num(0), !.torque = Num(0)]
    ELSE LET vx == XAdd(crab.vx, XMulDiv(crab.fx, 1, DT_DIV))
             vy == XAdd(crab.vy, XMulDiv(crab.fy, 1, DT_DIV))
             omega == ClampOmega(XAdd(crab.omega, XMulDiv(Alpha(crab), 1, DT_DIV)))
             cost == TDiv(BASAL_METABOLISM_COST
                            + crab.currentThrust * THRUST_ENERGY_COST, DT_DIV)
         IN [crab EXCEPT
               !.vx = vx, !.vy = vy, !.omega = omega,
               !.x = XAdd(@, XMulDiv(vx, 1, DT_DIV)),
               !.y = XAdd(@, XMulDiv(vy, 1, DT_DIV)),
               !.orientation = XRem(XAdd(@, XMulDiv(omega, 1, DT_DIV)), TWO_PI),
               !.energy = @ - cost, !.currentThrust = 0]

\* the x part of handleWallCollision on JavaScript values
wallX(crab, d) ==
    IF XLt(crab.x, 0)
    THEN IF XLt(crab.vx, 0)
         THEN [crab EXCEPT !.x = Num(0),
                           !.vy = XAdd(@, XMulDiv(XAbs(crab.vx), d, 100)),
                           !.vx = XMulDiv(@, -WallRestitution(crab), 10000)]
         ELSE [crab EXCEPT !.x = Num(0)]
    ELSE IF XGt(crab.x, W)
    THEN IF XGt(crab.vx, 0)
         THEN [crab EXCEPT !.x = Num(W),
                           !.vy = XAdd(@, XMulDiv(XAbs(crab.vx), d, 100)),
                           !.vx = XMulDiv(@, -WallRestitution(crab), 10000)]
         ELSE [crab EXCEPT !.x = Num(W)]
    ELSE crab

\* the y part of handleWallCollision on JavaScript values
wallY(crab, d) ==
    IF XLt(crab.y, 0)
    THEN IF XLt(crab.vy, 0)
         THEN [crab EXCEPT !.y = Num(0),
                           !.vx = XAdd(@, XMulDiv(XAbs(crab.vy), d, 100)),
                           !.vy = XMulDiv(@, -WallRestitution(crab), 10000)]
         ELSE [crab EXCEPT !.y = Num(0)]
    ELSE IF XGt(crab.y, H)
    THEN IF XGt(crab.vy, 0)
         THEN [crab EXCEPT !.y = Num(H),
                           !.vx = XAdd(@, XMulDiv(XAbs(crab.vy), d, 100)),
                           !.vy = XMulDiv(@, -WallRestitution(crab), 10000)]
         ELSE [crab EXCEPT !.y = Num(H)]
    ELSE crab

\* crab.x <= 0 || crab.x >= W || crab.y <= 0 || crab.y >= H
OnWall(crab) ==
    \/ XLt(crab.x, 1) \/ XGt(crab.x, W - 1)
    \/ XLt(crab.y, 1) \/ XGt(crab.y, H - 1)

\* handleWallCollision(crab) on JavaScript values; w is the draw of
\* rand(-0.05, 0.05) added to omega on a wall
handleWallCollision(crab, d1, d2, w) ==
    LET c == wallY(wallX(crab, d1), d2)
    IN IF OnWall(c) THEN [c EXCEPT !.omega = XAdd(@, Num(w))] ELSE c

\* the guard of the creature loop of drawWorld: the creature is skipped
DrawWorldSkips(crab) ==
    \/ crab.genotype = "missing"
    \/ ~IsNumber(crab.x) \/ ~IsNumber(crab.y) \/ ~IsNumber(crab.orientation)
    \/ IsNaN(crab.x) \/ IsNaN(crab.y) \/ IsNaN(crab.orientation)

\* the early exit of drawCrab; its position arguments passed the guard of
\* drawWorld
DrawCrabReturns(crab) == crab.genotype # "array"

\* getGene(g, GENE.RADIUS): the fallback 1.0 for an undefined entry
RadiusRead(crab) == IF crab.radiusGene.k = "undef" THEN Num(100) ELSE crab.radiusGene

\* ctx.createRadialGradient(0, 0, 0, 0, 0, rad * 1.5) of drawCrab: the canvas
\* throws a TypeError for a non-finite argument and an IndexSizeError for a
\* negative radius; the call is outside every try block
GradientThrows(crab) == ~Finite(RadiusRead(crab)) \/ RadiusRead(crab).v < 0

\* drawWorld for this creature ends by an exception
DrawWorldThrows(crab) ==
    ~DrawWorldSkips(crab) /\ ~DrawCrabReturns(crab) /\ GradientThrows(crab)

\* frames a creature is followed through
MaxFrames == 2

\* creatures as initPopulation and the force loop leave them: the first turns
\* clockwise from an orientation near zero, the second is about to cross the
\* right wall and to pass a full turn, the third is at the top wall
SoundCreatures ==
    {[x |-> Num(3000), y |-> Num(5000), vx |-> Num(200), vy |-> Num(-100),
      omega |-> Num(-30000), orientation |-> Num(1000),
      fx |-> Num(1000), fy |-> Num(0), torque |-> Num(-400), inertia |-> Num(50),
      energy |-> 750000, currentThrust |-> 1000, elasticity |-> 120,
      torqueEff |-> 100, genotype |-> "array", radiusGene |-> Num(2000)],
     [x |-> Num(8995), y |-> Num(5000), vx |-> Num(300), vy |-> Num(0),
      omega |-> Num(20000), orientation |-> Num(62000),
      fx |-> Num(-1000), fy |-> Num(200), torque |-> Num(300), inertia |-> Num(0),
      energy |-> 750000, currentThrust |-> 1200, elasticity |-> 80,
      torqueEff |-> 120, genotype |-> "array", radiusGene |-> Num(3000)],
     [x |-> Num(3000), y |-> Num(5), vx |-> Num(0), vy |-> Num(-200),
      omega |-> Num(0), orientation |-> Num(30000),
      fx |-> Num(0), fy |-> Num(-500), torque |-> Num(0), inertia |-> Num(50),
      energy |-> 600, currentThrust |-> 0, elasticity |-> 100,
      torqueEff |-> 80, genotype |-> "array", radiusGene |-> Num(1500)]}

\* values an anomaly puts into one checked field
Anomalies == {NaN, Inf(1), Inf(-1), Undef}

\* malformed genotypes: no entries, or a radius gene that is NaN, infinite,
\* missing or negative
BadGenotypes ==
    {[genotype |-> "empty", radiusGene |-> Undef],
     [genotype |-> "array", radiusGene |-> NaN],
     [genotype |-> "array", radiusGene |-> Inf(1)],
     [genotype |-> "array", radiusGene |-> Undef],
     [genotype |-> "array", radiusGene |-> Num(-2000)]}

\* forces, torque and thrust the force loop leaves for the next integration
ForceDraws ==
    {[fx |-> Num(1000), fy |-> Num(0), torque |-> Num(-400), thrust |-> 1000],
     [fx |-> NaN, fy |-> NaN, torque |-> Num(0), thrust |-> 0]}

\* rand(-0.05, 0.05) of handleWallCollision, in 1/10000 rad
OmegaJitter == {-500, 500}

\* the program itself is not running
Parked ==
    /\ population = <<>>
    /\ foodPellets = <<>>
    /\ crabCreationRequest = <<>>
    /\ newOffspringThisFrame = <<>>
    /\ autoRepro = <<>>
    /\ panel = NoPanel
    /\ pc = "idle"
    /\ ci = 1
    /\ cj = 2
    /\ globalTime = 0
    /\ nextId = 1
    /\ userActions = 0
    /\ taps = 0
    /\ handled = NoneHandled
    /\ lastCollision = NoCollision
    /\ lastRepro = NoRepro
    /\ lastRequest = NoRequest
    /\ eatLog = {}
    /\ foodLog = NoFood

Held == UNCHANGED <<population, foodPellets, crabCreationRequest,
                    newOffspringThisFrame, autoRepro, panel, pc, ci, cj,
                    globalTime, nextId, userActions, taps, handled,
                    lastCollision, lastRepro, lastRequest, eatLog, foodLog>>

FrameOf(crab) ==
    [fn |-> "frame", at |-> "integrate", crab |-> crab, before |-> crab,
     frames |-> 0]

\* a creature of the population when its integration starts: sound, or with
\* one anomaly
InitCreature ==
    /\ Parked
    /\ \E base \in SoundCreatures :
         \/ probe = FrameOf(base)
         \/ \E k \in 1..Len(propsToCheck), a \in Anomalies :
               probe = FrameOf([base EXCEPT ![propsToCheck[k]] = a])
         \/ \E g \in BadGenotypes :
               probe = FrameOf([base EXCEPT !.genotype = g.genotype,
                                            !.radiusGene = g.radiusGene])

\* first loop of updateMovement for this creature
CreatureForces ==
    /\ probe.fn = "frame"
    /\ probe.at = "forces"
    /\ \E f \in ForceDraws :
         probe' = [probe EXCEPT !.at = "integrate",
                                !.crab.fx = f.fx, !.crab.fy = f.fy,
                                !.crab.torque = f.torque,
                                !.crab.currentThrust = f.thrust]
    /\ Held

\* integrateCrab(crab)
CreatureIntegrate ==
    /\ probe.fn = "frame"
    /\ probe.at = "integrate"
    /\ probe' = [probe EXCEPT !.at = "wall", !.before = probe.crab,
                              !.crab = integrateCrab(@)]
    /\ Held

\* handleWallCollision(crab)
CreatureWall ==
    /\ probe.fn = "frame"
    /\ probe.at = "wall"
    /\ \E d1 \in DeflectChoices, d2 \in DeflectChoices, w \in OmegaJitter :
         probe' = [probe EXCEPT !.at = "draw",
                                !.crab = handleWallCollision(@, d1, d2, w)]
    /\ Held

\* drawWorld: an exception leaves mainLoop before requestAnimationFrame
CreatureDraw ==
    /\ probe.fn = "frame"
    /\ probe.at = "draw"
    /\ probe' = [probe EXCEPT !.at = IF DrawWorldThrows(probe.crab)
                                     THEN "stopped" ELSE "schedule"]
    /\ Held

\* requestAnimationFrame(mainLoop): the next frame starts
CreatureSchedule ==
    /\ probe.fn = "frame"
    /\ probe.at = "schedule"
    /\ probe.frames < MaxFrames
    /\ probe' = [probe EXCEPT !.at = "forces", !.frames = @ + 1]
    /\ Held

NextCreature ==
    \/ CreatureForces
    \/ CreatureIntegrate
    \/ CreatureWall
    \/ CreatureDraw
    \/ CreatureSchedule

SpecCreature == InitCreature /\ [][NextCreature]_vars

\* ------------------------------------------------- frames near the walls
\* creatures some frames into a run: one heading into the bottom right
\* corner, one into the top left corner, one toward the bottom wall next to
\* the first
MovingCrabs ==
    {[x |-> 8995, y |-> 9998, vx |-> 100, vy |-> 100, radius |-> 3000, elasticity |-> 120],
     [x |-> 3, y |-> 4, vx |-> -200, vy |-> -300, radius |-> 1500, elasticity |-> 80],
     [x |-> 6000, y |-> 9990, vx |-> 0, vy |-> 150, radius |-> 3000, elasticity |-> 100]}

InitCorner ==
    /\ \E start \in [1..PopSize -> MovingCrabs] :
         population = [k \in 1..PopSize |->
                          [NewCrab(k, start[k].x, start[k].y, start[k].radius,
                                   start[k].elasticity, BASE_ENERGY)
                             EXCEPT !.vx = start[k].vx, !.vy = start[k].vy]]
    /\ foodPellets = [k \in 1..InitialFoodCount |->
                          NewPellet(PopSize + k, InitPelletSpot(k)[1],
                                    InitPelletSpot(k)[2], FOOD_ENERGY_VALUE)]
    /\ crabCreationRequest = <<>>
    /\ newOffspringThisFrame = <<>>
    /\ autoRepro = <<>>
    /\ panel = NoPanel
    /\ pc = "idle"
    /\ ci = 1
    /\ cj = 1
    /\ globalTime = 0
    /\ nextId = PopSize + InitialFoodCount + 1
    /\ userActions = 0
    /\ taps = 0
    /\ handled = NoneHandled
    /\ lastCollision = NoCollision
    /\ lastRepro = NoRepro
    /\ lastRequest = NoRequest
    /\ eatLog = {}
    /\ foodLog = NoFood
    /\ probe = NoProbe

SpecCorner == InitCorner /\ [][NextSim]_vars

\* -------------------------------------------- handleCrabCollision on its own
COLLISION_TORQUE_FACTOR == 120

\* glancingFactorA = 1 - |nx * dx + ny * dy| / dist, in percent
Glancing(A, B) ==
    IF DistSq(A, B) = 0 THEN 100
    ELSE 100 - TDiv(DistSq(A, B) * 100, Dist(A, B) * Dist(A, B))

\* torqueA = (offAx * -impy - offAy * -impx) * (1 + glancingFactorA), the
\* offset being radius * n and the impulse j * n
ContactTorque(radius, A, B) ==
    LET j == Impulse(A, B)
        offx == AlongNormalX(radius, A, B)
        offy == AlongNormalY(radius, A, B)
        impx == AlongNormalX(j, A, B)
        impy == AlongNormalY(j, A, B)
    IN TDiv((offy * impx - offx * impy) * (100 + Glancing(A, B)), 100)

\* the angular velocities after handleCrabCollision: changed only inside the
\* approach < 0 block
ImpactOmega(A, B) ==
    IF Colliding(A, B) /\ ApproachDot(A, B) < 0
    THEN [A |-> A.omega - TDiv(ContactTorque(A.radius, A, B) * COLLISION_TORQUE_FACTOR,
                               IF A.inertia = 0 THEN 1 ELSE A.inertia),
          B |-> B.omega + TDiv(ContactTorque(B.radius, A, B) * COLLISION_TORQUE_FACTOR,
                               IF B.inertia = 0 THEN 1 ELSE B.inertia)]
    ELSE [A |-> A.omega, B |-> B.omega]

\* a torque that takes only the x part of the contact offset
TorqueNumeratorAxis(off, j, dx, dy) == (off * dx) * (-(j * dy))

\* offx * -impy - offy * -impx in exact arithmetic, for the offset off * n
\* and the impulse j * n with n = (dx, dy) / dist: the value times dist^2
TorqueNumerator(off, j, dx, dy) ==
    (off * dx) * (-(j * dy)) - (off * dy) * (-(j * dx))

\* 1 - |nx * dx + ny * dy| / dist in exact arithmetic, as a fraction: with
\* dist = 0.0001 for coinciding centres the normal is (0, 0) and the factor 1
GlancingExact(dx, dy) ==
    IF dx * dx + dy * dy = 0 THEN [num |-> 1, den |-> 1]
    ELSE [num |-> (dx * dx + dy * dy) - Abs(dx * dx + dy * dy),
          den |-> dx * dx + dy * dy]

\* what handleCrabCollision adds to the angular velocities in exact
\* arithmetic: torque * (1 + glancing) * COLLISION_TORQUE_FACTOR / inertia,
\* taken from A and given to B. The factors are kept apart: the torques times
\* dist^2, lengths in whole pixels, and the glancing factor as a fraction
ExactSpin(A, B) ==
    LET dx == (B.x - A.x) \div 100
        dy == (B.y - A.y) \div 100
        j == Impulse(A, B)
    IN IF Colliding(A, B) /\ ApproachDot(A, B) < 0
       THEN [torqueA |-> TorqueNumerator(A.radius \div 100, j, dx, dy),
             torqueB |-> -TorqueNumerator(-(B.radius \div 100), j, dx, dy),
             glancing |-> GlancingExact(dx, dy)]
       ELSE [torqueA |-> 0, torqueB |-> 0, glancing |-> GlancingExact(dx, dy)]

\* velocities of the first creature, places and velocities of the second
PairVelocities == {<<300, 0>>, <<-300, 0>>, <<0, 0>>, <<200, 100>>}

PairPlaces == {<<5000, 5000>>, <<3000, 5000>>, <<7000, 5000>>, <<4000, 5700>>}

\* the second creature comes with the opposite velocity, at rest, or across
PairSecondVelocity(v) == {<<-v[1], -v[2]>>, <<0, 0>>, <<100, -200>>}

\* radius and elasticity genes of the two; elasticity 2.0 is what repeated
\* manual mutations can reach
PairGenes ==
    {[rA |-> 1500, rB |-> 1500, eA |-> 200, eB |-> 200],
     [rA |-> 1500, rB |-> 1500, eA |-> 120, eB |-> 120],
     [rA |-> 3000, rB |-> 1500, eA |-> 80, eB |-> 120]}

PairEnergies == {<<750000, 750000>>, <<750000, 300000>>}

PairCrab(id, x, y, v, radius, elasticity, energy, omega) ==
    [id |-> id, x |-> x, y |-> y, vx |-> v[1], vy |-> v[2],
     fx |-> 0, fy |-> 0, currentThrust |-> 1000,
     radius |-> radius, elasticity |-> elasticity,
     energy |-> energy, selected |-> FALSE, omega |-> omega, inertia |-> 50]

InitPair ==
    /\ Parked
    /\ \E va \in PairVelocities, pb \in PairPlaces, g \in PairGenes,
          en \in PairEnergies :
         \E vb \in PairSecondVelocity(va) :
            probe = [fn |-> "pair", at |-> "call",
                     A |-> PairCrab(1, 3000, 5000, va, g.rA, g.eA, en[1], 10000),
                     B |-> PairCrab(2, pb[1], pb[2], vb, g.rB, g.eB, en[2], -20000),
                     afterA |-> <<>>, afterB |-> <<>>, spin |-> <<>>]

\* handleCrabCollision(A, B, offspringAccumulator)
PairCollide ==
    /\ probe.fn = "pair"
    /\ probe.at = "call"
    /\ \E in \in ReproChoices :
         LET r == HandleCrabCollision(probe.A, probe.B, in, 3)
             w == ImpactOmega(probe.A, probe.B)
         IN probe' = [probe EXCEPT !.at = "done",
                                   !.afterA = <<[r.A EXCEPT !.omega = w.A]>>,
                                   !.afterB = <<[r.B EXCEPT !.omega = w.B]>>,
                                   !.spin = <<ExactSpin(probe.A, probe.B)>>]
    /\ Held

NextPair == PairCollide

SpecPair == InitPair /\ [][NextPair]_vars

\* ------------------------------------------------------------- genotypes
\* Gene values are in units of 1/100. A genotype is a function from the
\* indices that hold a value to the values; its length is the last index + 1.
LIMB_COUNT == 8

\* largest LIMB_COUNT of the configurations explored
MaxLimbCount == 10

\* the gene-index map of index.html for a configuration with LC limbs
GENE(LC) ==
    [RADIUS |-> 0, ELONGATION |-> 1, ORIENT |-> 2,
     FREQ |-> 3 + LC * 5, AMP |-> 4 + LC * 5,
     SIDES |-> 53, BODY_SYM |-> 54, MOVE_SYM |-> 55,
     COLOR_R |-> 56, COLOR_G |-> 57, COLOR_B |-> 58,
     DRAG_MOD |-> 60, ROT_DRAG_MOD |-> 61, ELASTICITY |-> 62,
     TORQUE_EFF |-> 63, POWER_RATIO |-> 64]

ColourGenes(LC) == {GENE(LC).COLOR_R, GENE(LC).COLOR_G, GENE(LC).COLOR_B}

\* g.length
Length(g) == (CHOOSE i \in DOMAIN g : \A k \in DOMAIN g : k <= i) + 1

\* a count without the slot of the removed energy gene
GeneCountNoSpare(LC) == 3 + LC * 5 + 2 + LC + 1 + 2 + 3 + 5

\* geneCount of createRandomGenotype
GeneCount(LC) == 3 + LC * 5 + 2 + LC + 1 + 2 + 3 + 1 + 5

\* rand(lo, hi) at the two ends of its range [lo, hi)
Rand(r, lo, hi) == IF r = "lo" THEN lo ELSE hi - 1

\* the draws of one createRandomGenotype call: every rand of a group at its
\* low end or at its high end
Rolls == [body : {"lo", "hi"}, limb : {"lo", "hi"}, colour : {"lo", "hi"},
          trait : {"lo", "hi"}]

\* the limb gene at offset k of its group of five
LimbGene(k, r) ==
    CASE k = 0 -> Rand(r, 0, 628)
      [] k = 1 -> Rand(r, 1000, 4000)
      [] k = 2 -> Rand(r, 10, 70)
      [] k = 3 -> Rand(r, 50, 90)
      [] OTHER -> Rand(r, 0, 628)

\* the physical trait genes 60..64
TraitGene(i, r) ==
    CASE i = 60 -> Rand(r, 50, 150)
      [] i = 61 -> Rand(r, 70, 130)
      [] i = 64 -> Rand(r, 80, 150)
      [] OTHER -> Rand(r, 80, 120)

\* createRandomGenotype(CONFIG, GENE): the zero fill, then the assignments in
\* the order of the code, a later one overwriting an earlier one at the same
\* index
createRandomGenotype(LC, roll) ==
    LET G == GENE(LC)
        written == (0..(GeneCount(LC) - 1)) \cup (0..(4 + LC * 5))
                      \cup (45..(44 + LC)) \cup (53..58) \cup (60..64)
    IN [i \in written |->
          IF i \in 60..64 THEN TraitGene(i, roll.trait)
          ELSE IF i \in ColourGenes(LC) THEN Rand(roll.colour, 0, 25500)
          ELSE IF i = G.MOVE_SYM THEN 0
          ELSE IF i = G.BODY_SYM THEN Rand(roll.body, 0, 40)
          ELSE IF i = G.SIDES THEN (IF roll.body = "lo" THEN 300 ELSE 800)
          ELSE IF i \in 45..(44 + LC) THEN Rand(roll.limb, 0, 100)
          ELSE IF i = G.AMP THEN Rand(roll.trait, 20, 100)
          ELSE IF i = G.FREQ THEN Rand(roll.trait, 100, 300)
          ELSE IF i \in 3..(2 + LC * 5) THEN LimbGene((i - 3) % 5, roll.limb)
          ELSE IF i = G.ORIENT THEN Rand(roll.body, 0, 628)
          ELSE IF i = G.ELONGATION THEN Rand(roll.body, 70, 130)
          ELSE IF i = G.RADIUS THEN Rand(roll.body, 1500, 3000)
          ELSE 0]

InitGenotype ==
    /\ Parked
    /\ \E lc \in 1..MaxLimbCount :
         probe = [fn |-> "genotype", at |-> "call", LC |-> lc, g |-> <<>>]

\* createRandomGenotype(CONFIG, GENE) under a configuration with LC limbs
CreateRandomGenotype ==
    /\ probe.fn = "genotype"
    /\ probe.at = "call"
    /\ \E roll \in Rolls :
         probe' = [probe EXCEPT !.at = "done",
                                !.g = createRandomGenotype(probe.LC, roll)]
    /\ Held

NextGenotype == CreateRandomGenotype

SpecGenotype == InitGenotype /\ [][NextGenotype]_vars

\* ------------------------------------------------- crossover and mutate
\* Arrays live in a heap: a sequence of genotypes, a reference being an index.

\* a genotype after several manual mutations: the body-symmetry and the
\* elasticity genes are multiplied and not clamped there
ManuallyMutated(g) ==
    [g EXCEPT ![GENE(LIMB_COUNT).BODY_SYM] = 130,
              ![GENE(LIMB_COUNT).ELASTICITY] = 200]

\* Math.random() < 0.5 for index i under a pattern of draws
FromA(pattern, i) ==
    CASE pattern = "a" -> TRUE
      [] pattern = "b" -> FALSE
      [] pattern = "even" -> i % 2 = 0
      [] OTHER -> i % 2 = 1

\* the draws of one crossover call: a pattern for the loop and one draw for
\* each of the three colour channels
CrossoverPicks ==
    [main : {"a", "b", "even", "odd"},
     colour : {<<TRUE, TRUE, TRUE>>, <<FALSE, FALSE, FALSE>>, <<TRUE, FALSE, TRUE>>}]

\* the child array crossover(a, b, GENE) builds
Child(a, b, pick) ==
    LET G == GENE(LIMB_COUNT)
    IN [i \in (0..(Length(a) - 1)) \cup ColourGenes(LIMB_COUNT) |->
          IF i = G.COLOR_R THEN (IF pick.colour[1] THEN a[i] ELSE b[i])
          ELSE IF i = G.COLOR_G THEN (IF pick.colour[2] THEN a[i] ELSE b[i])
          ELSE IF i = G.COLOR_B THEN (IF pick.colour[3] THEN a[i] ELSE b[i])
          ELSE IF FromA(pick.main, i) THEN a[i] ELSE b[i]]

\* a crossover that writes the child into the first parent's array
crossoverInPlace(heap, a, b, pick) ==
    [heap |-> [heap EXCEPT ![a] = Child(heap[a], heap[b], pick)], ref |-> a]

\* crossover(a, b, GENE): a new array, returned
crossover(heap, a, b, pick) ==
    [heap |-> Append(heap, Child(heap[a], heap[b], pick)),
     ref |-> Len(heap) + 1]

\* the draws of one mutate call: which genes pass Math.random() <
\* mutationRate, and the end of the range their rand takes
MutateDraws == [mask : {"none", "all", "odd"}, amount : {"lo", "hi"}]

Mutated(draw, i) == draw.mask = "all" \/ (draw.mask = "odd" /\ i % 2 = 1)

\* the loop of mutate: colours += rand(-50, 50), others *= 1 + rand(-0.2, 0.2)
Perturb(g, draw) ==
    [i \in DOMAIN g |->
        IF ~Mutated(draw, i) THEN g[i]
        ELSE IF i \in ColourGenes(LIMB_COUNT)
        THEN g[i] + Rand(draw.amount, -5000, 5000)
        ELSE TDiv(g[i] * (100 + Rand(draw.amount, -20, 20)), 100)]

\* Math.round
Round(v) == ((v + 50) \div 100) * 100

\* the clamps of mutate
Clamps(g) ==
    LET G == GENE(LIMB_COUNT)
        limb1 == {3 + i * 5 + 1 : i \in 0..(LIMB_COUNT - 1)}
        limb2 == {3 + i * 5 + 2 : i \in 0..(LIMB_COUNT - 1)}
        limb3 == {3 + i * 5 + 3 : i \in 0..(LIMB_COUNT - 1)}
    IN [i \in DOMAIN g |->
          IF i \in limb1 THEN Max(g[i], 100)
          ELSE IF i \in limb2 THEN clamp(g[i], 5, 100)
          ELSE IF i \in limb3 THEN clamp(g[i], 10, 95)
          ELSE IF i = G.AMP THEN Max(g[i], 50)
          ELSE IF i = G.FREQ THEN Max(g[i], 100)
          ELSE IF i = G.POWER_RATIO THEN clamp(g[i], 80, 150)
          ELSE IF i = G.TORQUE_EFF THEN clamp(g[i], 80, 120)
          ELSE IF i = G.ELASTICITY THEN clamp(g[i], 80, 120)
          ELSE IF i = G.ROT_DRAG_MOD THEN clamp(g[i], 70, 130)
          ELSE IF i = G.DRAG_MOD THEN clamp(g[i], 50, 150)
          ELSE IF i \in ColourGenes(LIMB_COUNT) THEN clamp(g[i], 0, 25500)
          ELSE IF i \in {G.BODY_SYM, G.MOVE_SYM} THEN clamp(g[i], 0, 100)
          ELSE IF i = G.SIDES THEN clamp(Round(g[i]), 300, 800)
          ELSE g[i]]

\* a mutate without its clamps
mutateUnclamped(heap, g, draw) ==
    [heap |-> [heap EXCEPT ![g] = Perturb(@, draw)], ref |-> g]

\* mutate(g, CONFIG, GENE): the array is changed in place and returned
mutate(heap, g, draw) ==
    [heap |-> [heap EXCEPT ![g] = Clamps(Perturb(@, draw))], ref |-> g]

\* the genotypes of two parents: as created, the second possibly after manual
\* mutations
InitBreed ==
    /\ Parked
    /\ \E ra \in Rolls, rb \in Rolls, manual \in BOOLEAN :
         LET a == createRandomGenotype(LIMB_COUNT, ra)
             b == IF manual THEN ManuallyMutated(createRandomGenotype(LIMB_COUNT, rb))
                  ELSE createRandomGenotype(LIMB_COUNT, rb)
         IN probe = [fn |-> "breed", at |-> "crossover", heap |-> <<a, b>>,
                     a0 |-> a, b0 |-> b, child |-> 0, result |-> 0]

\* const childGeno = crossover(parentA.genotype, parentB.genotype, GENE)
Crossover ==
    /\ probe.fn = "breed"
    /\ probe.at = "crossover"
    /\ \E pick \in CrossoverPicks :
         LET r == crossover(probe.heap, 1, 2, pick)
         IN probe' = [probe EXCEPT !.at = "mutate", !.heap = r.heap,
                                   !.child = r.ref]
    /\ Held

\* mutate(childGeno, CONFIG, GENE)
Mutate ==
    /\ probe.fn = "breed"
    /\ probe.at = "mutate"
    /\ \E draw \in MutateDraws :
         LET r == mutate(probe.heap, probe.child, draw)
         IN probe' = [probe EXCEPT !.at = "done", !.heap = r.heap,
                                   !.result = r.ref]
    /\ Held

NextBreed ==
    \/ Crossover
    \/ Mutate

SpecBreed == InitBreed /\ [][NextBreed]_vars

\* ------------------------------------------------------- body symmetry
\* a body symmetry that adds the mirrored left value onto the right one
BlendOnto(sf, l, r) == TDiv(sf * l + 100 * r, 100)

\* sf * l + (1 - sf) * r
Blend(sf, l, r) == TDiv(sf * l + (100 - sf) * r, 100)

\* applyBodySymmetry(g, CONFIG, GENE): the right half of the limbs and of the
\* attach fractions moves towards the mirror image of the left half
applyBodySymmetry(g) ==
    LET half == LIMB_COUNT \div 2
        sf == clamp(g[GENE(LIMB_COUNT).BODY_SYM], 0, 100)
        rightLimb == {3 + (i + half) * 5 + k : i \in 0..(half - 1), k \in 0..3}
        rightAttach == {45 + i + half : i \in 0..(half - 1)}
    IN IF sf <= 0 THEN g
       ELSE [j \in DOMAIN g |->
               IF j \in rightLimb
               THEN IF (j - 3) % 5 = 0
                    THEN Blend(sf, -g[j - half * 5], g[j])
                    ELSE Blend(sf, g[j - half * 5], g[j])
               ELSE IF j \in rightAttach
               THEN Blend(sf, 100 - g[j - half], g[j])
               ELSE g[j]]

\* the values the body-symmetry gene takes: none, the most a created genotype
\* has, the bound mutate clamps to, a value after manual mutations
SymmetryFactors == {0, 40, 100, 130}

\* a child that took its left half from one parent and the rest from another
HalvesOf(a, b) == [i \in DOMAIN a |-> IF i < 3 + (LIMB_COUNT \div 2) * 5 THEN a[i] ELSE b[i]]

InitSymmetry ==
    /\ Parked
    /\ \E ra \in Rolls, rb \in Rolls, sf \in SymmetryFactors :
         LET g == [HalvesOf(createRandomGenotype(LIMB_COUNT, ra),
                            createRandomGenotype(LIMB_COUNT, rb))
                     EXCEPT ![GENE(LIMB_COUNT).BODY_SYM] = sf]
         IN probe = [fn |-> "symmetry", g0 |-> g, prev |-> g, g |-> g,
                     applied |-> 0]

\* applyBodySymmetry(geno, CONFIG, GENE), on the array it was applied to before
ApplyBodySymmetry ==
    /\ probe.fn = "symmetry"
    /\ probe.applied < 2
    /\ probe' = [probe EXCEPT !.prev = probe.g,
                              !.g = applyBodySymmetry(probe.g),
                              !.applied = @ + 1]
    /\ Held

NextSymmetry == ApplyBodySymmetry

SpecSymmetry == InitSymmetry /\ [][NextSymmetry]_vars

\* ------------------------------------------------- genotypes over time
\* applyMovementSymmetry(g, CONFIG, GENE): the phases of the right half move
\* towards those of the left half
applyMovementSymmetry(g) ==
    LET half == LIMB_COUNT \div 2
        msf == clamp(g[GENE(LIMB_COUNT).MOVE_SYM], 0, 100)
        rightPhase == {3 + (i + half) * 5 + 4 : i \in 0..(half - 1)}
    IN IF msf <= 0 THEN g
       ELSE [j \in DOMAIN g |->
               IF j \in rightPhase THEN Blend(msf, g[j - half * 5], g[j])
               ELSE g[j]]

\* one pass of the loop of mutateGeneRandomly on the gene at geneIndex
ManualStep(g, geneIndex, amount) ==
    IF geneIndex \in ColourGenes(LIMB_COUNT)
    THEN [g EXCEPT ![geneIndex] = @ + Rand(amount, -10000, 10000)]
    ELSE IF geneIndex = GENE(LIMB_COUNT).SIDES
    THEN [g EXCEPT ![geneIndex] = @ + Rand(amount, -200, 200)]
    ELSE [g EXCEPT ![geneIndex] = TDiv(@ * (100 + Rand(amount, -40, 40)), 100)]

\* the clamps of mutateGeneRandomly; its writes under the names TURN_SPEED,
\* THRUST_POWER, THRUST_DURATION and THRUST_COOLDOWN, which GENE does not
\* have, set a property of the array and no gene
ManualClamps(g) ==
    LET G == GENE(LIMB_COUNT)
    IN [i \in DOMAIN g |->
          IF i = G.SIDES THEN clamp(Round(g[i]), 300, 800)
          ELSE IF i = G.RADIUS THEN clamp(g[i], 500, 5000)
          ELSE IF i = G.ELONGATION THEN clamp(g[i], 50, 200)
          ELSE IF i \in ColourGenes(LIMB_COUNT) THEN clamp(Round(g[i]), 0, 25500)
          ELSE g[i]]

\* the draws of one press of the mutate button: the three gene indices, the
\* colour channel of the extra mutation, the end of the range every rand takes
ManualDraws ==
    [genes : {<<62, 62, 62>>, <<54, 60, 61>>, <<53, 56, 0>>, <<63, 64, 1>>},
     colour : {56, 58},
     amount : {"lo", "hi"}]

\* mutateGeneRandomly(crab): the genotype of the creature afterwards
mutateGeneRandomly(g, draw) ==
    LET g1 == ManualStep(g, draw.genes[1], draw.amount)
        g2 == ManualStep(g1, draw.genes[2], draw.amount)
        g3 == ManualStep(g2, draw.genes[3], draw.amount)
        g4 == [g3 EXCEPT ![draw.colour] = @ + Rand(draw.amount, -10000, 10000)]
    IN ManualClamps(g4)

\* createRandomGenotype, applyBodySymmetry, applyMovementSymmetry: the
\* genotype of a creature of initPopulation or of a creation request
CreatedGenotype(roll) ==
    applyMovementSymmetry(applyBodySymmetry(createRandomGenotype(LIMB_COUNT, roll)))

\* crossover, mutate, applyBodySymmetry, applyMovementSymmetry: the genotype
\* of the child of triggerReproduction
ChildGenotype(a, b, pick, draw) ==
    applyMovementSymmetry(applyBodySymmetry(Clamps(Perturb(Child(a, b, pick), draw))))

MaxGenerations == 2

\* the other parent of a reproduction: a created creature
Partners ==
    {CreatedGenotype([body |-> r, limb |-> r, colour |-> r, trait |-> r]) :
        r \in {"lo", "hi"}}

InitLineage ==
    /\ Parked
    /\ \E roll \in Rolls :
         probe = [fn |-> "lineage", g |-> CreatedGenotype(roll), generation |-> 0,
                  by |-> "create"]

\* the mutate button of the info panel
LineageMutateButton ==
    /\ probe.fn = "lineage"
    /\ probe.generation < MaxGenerations
    /\ \E draw \in ManualDraws :
         probe' = [probe EXCEPT !.g = mutateGeneRandomly(probe.g, draw),
                                !.generation = @ + 1, !.by = "button"]
    /\ Held

\* a collision or manual reproduction with the creature as first parent
LineageBreed ==
    /\ probe.fn = "lineage"
    /\ probe.generation < MaxGenerations
    /\ \E b \in Partners, main \in {"a", "b", "even", "odd"}, draw \in MutateDraws :
         probe' = [probe EXCEPT
                     !.g = ChildGenotype(probe.g, b,
                              [main |-> main, colour |-> <<TRUE, FALSE, TRUE>>], draw),
                     !.generation = @ + 1, !.by = "breed"]
    /\ Held

\* cloneCrab: const cloneGeno = [...originalCrab.genotype]
LineageClone ==
    /\ probe.fn = "lineage"
    /\ probe.generation < MaxGenerations
    /\ probe' = [probe EXCEPT !.generation = @ + 1, !.by = "clone"]
    /\ Held

NextLineage ==
    \/ LineageMutateButton
    \/ LineageBreed
    \/ LineageClone

SpecLineage == InitLineage /\ [][NextLineage]_vars

\* ------------------------------------------------------- delete and sweep
\* the population of initPopulation after one tap on a creature: the panel
\* shows that creature, with its mutate, clone and delete buttons
InitDelete ==
    /\ \E start \in [1..PopSize -> InitCrabs], tapped \in 1..PopSize :
         /\ population = [k \in 1..PopSize |->
                            [NewCrab(k, start[k].x, start[k].y, start[k].radius,
                                     start[k].elasticity, BASE_ENERGY)
                               EXCEPT !.selected = (k = tapped)]]
         /\ probe = [fn |-> "delete", id |-> tapped]
    /\ foodPellets = [k \in 1..InitialFoodCount |->
                          NewPellet(PopSize + k, InitPelletSpot(k)[1],
                                    InitPelletSpot(k)[2], FOOD_ENERGY_VALUE)]
    /\ crabCreationRequest = <<>>
    /\ newOffspringThisFrame = <<>>
    /\ autoRepro = <<>>
    /\ panel = PanelFor(population)
    /\ pc = "idle"
    /\ ci = 1
    /\ cj = 1
    /\ globalTime = 0
    /\ nextId = PopSize + InitialFoodCount + 1
    /\ userActions = 0
    /\ taps = 1
    /\ handled = NoneHandled
    /\ lastCollision = NoCollision
    /\ lastRepro = NoRepro
    /\ lastRequest = NoRequest
    /\ eatLog = {}
    /\ foodLog = NoFood

NextDelete ==
    \/ DeleteCrab
    \/ NextSim

SpecDelete == InitDelete /\ [][NextDelete]_vars

\* ------------------------------------------------- three creatures, radii
\* what initPopulation can draw for three creatures: a large creature behind
\* a small one, three large creatures, three small ones far apart, three
\* large ones that overlap each other
SweepLayouts ==
    {<<[x |-> 2000, y |-> 2000, radius |-> 1500],
       [x |-> 5100, y |-> 8000, radius |-> 1500],
       [x |-> 5200, y |-> 2000, radius |-> 3000]>>,
     <<[x |-> 2000, y |-> 2000, radius |-> 3000],
       [x |-> 5100, y |-> 8000, radius |-> 3000],
       [x |-> 5200, y |-> 2000, radius |-> 3000]>>,
     <<[x |-> 1500, y |-> 2000, radius |-> 1500],
       [x |-> 5000, y |-> 5000, radius |-> 1500],
       [x |-> 7400, y |-> 8000, radius |-> 1500]>>,
     <<[x |-> 3000, y |-> 5000, radius |-> 3000],
       [x |-> 4000, y |-> 5000, radius |-> 3000],
       [x |-> 5000, y |-> 5500, radius |-> 3000]>>}

InitSweep ==
    /\ \E layout \in SweepLayouts, e \in {80, 120} :
         population = [k \in 1..3 |->
                          NewCrab(k, layout[k].x, layout[k].y, layout[k].radius,
                                  e, BASE_ENERGY)]
    /\ foodPellets = [k \in 1..InitialFoodCount |->
                          NewPellet(3 + k, InitPelletSpot(k)[1],
                                    InitPelletSpot(k)[2], FOOD_ENERGY_VALUE)]
    /\ crabCreationRequest = <<>>
    /\ newOffspringThisFrame = <<>>
    /\ autoRepro = <<>>
    /\ panel = NoPanel
    /\ pc = "idle"
    /\ ci = 1
    /\ cj = 1
    /\ globalTime = 0
    /\ nextId = 3 + InitialFoodCount + 1
    /\ userActions = 0
    /\ taps = 0
    /\ handled = NoneHandled
    /\ lastCollision = NoCollision
    /\ lastRepro = NoRepro
    /\ lastRequest = NoRequest
    /\ eatLog = {}
    /\ foodLog = NoFood
    /\ probe = NoProbe

SpecSweep == InitSweep /\ [][NextSim]_vars

\* ------------------------------------------------- energy of the system
\* energies creatures hold at the start of a tick: nearly starved, just below
\* the energy of a new creature, full
StartEnergies == {40, 749900, 1000000}

\* a population between two ticks whose living energy is below the target
InitEnergy ==
    /\ \E start \in [1..PopSize -> InitCrabs], e \in [1..PopSize -> StartEnergies] :
         population = [k \in 1..PopSize |->
                          NewCrab(k, start[k].x, start[k].y, start[k].radius,
                                  start[k].elasticity, e[k])]
    /\ foodPellets = [k \in 1..InitialFoodCount |->
                          NewPellet(PopSize + k, InitPelletSpot(k)[1],
                                    InitPelletSpot(k)[2], FOOD_ENERGY_VALUE)]
    /\ LivingEnergy(population, foodPellets) < TargetEnergy
    /\ crabCreationRequest = <<>>
    /\ newOffspringThisFrame = <<>>
    /\ autoRepro = <<>>
    /\ panel = NoPanel
    /\ pc = "idle"
    /\ ci = 1
    /\ cj = 1
    /\ globalTime = 0
    /\ nextId = PopSize + InitialFoodCount + 1
    /\ userActions = 0
    /\ taps = 0
    /\ handled = NoneHandled
    /\ lastCollision = NoCollision
    /\ lastRepro = NoRepro
    /\ lastRequest = NoRequest
    /\ eatLog = {}
    /\ foodLog = NoFood
    /\ probe = NoProbe

\* ticks, taps, the breed timer and the delete and cancel buttons: no
\* creation request and no clone
NextEnergy ==
    \/ NextSim
    \/ HandleTap
    \/ AutoReproBreed
    \/ DeleteCrab
    \/ CancelBreed

SpecEnergy == InitEnergy /\ [][NextEnergy]_vars

\* ------------------------------------------------- a creature without food
\* energies of a creature no pellet is in reach of
HungryEnergies == {40, 12000, 100000}

\* thrust the limbs of a creature at rest add up to while their forces cancel
HungryThrusts == {0, 1000}

\* impulses of the collisions the creature takes part in during one pass
HungryImpulses == {0, 100}

\* the frames of the main loop for one creature, as many as it takes
InitStarve ==
    /\ Parked
    /\ \E e \in HungryEnergies :
         probe = [fn |-> "starve", at |-> "food", start |-> e,
                  pop |-> <<NewCrab(1, 4500, 5000, 1500, 100, e)>>]

\* updateFoodAndEating: no pellet is in reach
StarveFood ==
    /\ probe.fn = "starve"
    /\ probe.at = "food"
    /\ probe.pop # <<>>
    /\ probe' = [probe EXCEPT
                   !.at = "forces",
                   !.pop = EatingLoop(probe.pop, <<>>, {}, Len(probe.pop)).population]
    /\ Held

\* first loop of updateMovement
StarveForces ==
    /\ probe.fn = "starve"
    /\ probe.at = "forces"
    /\ \E t \in HungryThrusts :
         probe' = [probe EXCEPT !.at = "collide", !.pop[1].currentThrust = t]
    /\ Held

\* the pair loops: the cost branch of handleCrabCollision for this creature
StarveCollide ==
    /\ probe.fn = "starve"
    /\ probe.at = "collide"
    /\ \E j \in HungryImpulses :
         probe' = [probe EXCEPT
                     !.at = "integrate",
                     !.pop[1].energy = IF CollisionCost(j) > 0
                                       THEN Max(0, @ - CollisionCost(j)) ELSE @]
    /\ Held

\* integrateCrab(crab); handleWallCollision(crab)
StarveIntegrate ==
    /\ probe.fn = "starve"
    /\ probe.at = "integrate"
    /\ \E d1 \in DeflectChoices, d2 \in DeflectChoices :
         probe' = [probe EXCEPT
                     !.at = "deaths",
                     !.pop[1] = HandleWallCollision(IntegrateCrab(@), d1, d2)]
    /\ Held

\* handleDeathsAndCulling(); requestAnimationFrame(mainLoop)
StarveSweep ==
    /\ probe.fn = "starve"
    /\ probe.at = "deaths"
    /\ probe' = [probe EXCEPT !.at = "food", !.pop = Survivors(@)]
    /\ Held

NextStarve ==
    \/ StarveFood
    \/ StarveForces
    \/ StarveCollide
    \/ StarveIntegrate
    \/ StarveSweep

\* every frame ends by scheduling the next one, and the browser runs it
SpecStarve == InitStarve /\ [][NextStarve]_vars /\ WF_vars(NextStarve)

\* ------------------------------------------------- selection, three taps
MaxSelectTaps == 3
\* ticks of the main loop explored between the taps
MaxSelectTicks == 1

\* three creatures of initPopulation: two that overlap and a third far away
SelectCrabs ==
    <<[x |-> 2000, y |-> 5000, radius |-> 1500],
      [x |-> 4500, y |-> 5000, radius |-> 1500],
      [x |-> 7400, y |-> 8000, radius |-> 1500]>>

\* points the user taps: the three creatures and an empty corner
SelectTapSpots == {<<2000, 5000>>, <<4500, 5000>>, <<7400, 8000>>, <<500, 9500>>}

InitSelect ==
    /\ \E e \in {80, 120} :
         population = [k \in 1..3 |->
                          NewCrab(k, SelectCrabs[k].x, SelectCrabs[k].y,
                                  SelectCrabs[k].radius, e, BASE_ENERGY)]
    /\ foodPellets = [k \in 1..InitialFoodCount |->
                          NewPellet(3 + k, InitPelletSpot(k)[1],
                                    InitPelletSpot(k)[2], FOOD_ENERGY_VALUE)]
    /\ crabCreationRequest = <<>>
    /\ newOffspringThisFrame = <<>>
    /\ autoRepro = <<>>
    /\ panel = NoPanel
    /\ pc = "idle"
    /\ ci = 1
    /\ cj = 1
    /\ globalTime = 0
    /\ nextId = 3 + InitialFoodCount + 1
    /\ userActions = 0
    /\ taps = 0
    /\ handled = NoneHandled
    /\ lastCollision = NoCollision
    /\ lastRepro = NoRepro
    /\ lastRequest = NoRequest
    /\ eatLog = {}
    /\ foodLog = NoFood
    /\ probe = [fn |-> "select", taps |-> 0, tapped |-> 0, before |-> {}]

\* handleTap(e) between two frames; the probe remembers the creature under
\* the tap and the creatures that were selected before it
SelectTap ==
    /\ pc = "idle"
    /\ probe.fn = "select"
    /\ probe.taps < MaxSelectTaps
    /\ \E pt \in SelectTapSpots :
         /\ Tapped(population, pt) # population
         /\ population' = Tapped(population, pt)
         /\ probe' = [probe EXCEPT
                        !.taps = @ + 1,
                        !.tapped = IF ClickedCrab(population, pt) = 0 THEN 0
                                   ELSE population[ClickedCrab(population, pt)].id,
                        !.before = Ids(SelectedSeq(population))]
    /\ panel' = PanelFor(population')
    /\ autoRepro' = TimerFor(population')
    /\ UNCHANGED <<foodPellets, newOffspringThisFrame, pc, ci, cj, globalTime,
                   handled, lastCollision, eatLog, foodLog, crabCreationRequest,
                   nextId, lastRepro, userActions, taps, lastRequest>>

\* a step of the main loop
SelectTick ==
    /\ pc = "idle" => globalTime < MaxSelectTicks
    /\ NextSim

NextSelect ==
    \/ SelectTap
    \/ HandleDoubleTap
    \/ CloneCrab
    \/ DeleteCrab
    \/ CancelBreed
    \/ AutoReproBreed
    \/ SelectTick

SpecSelect == InitSelect /\ [][NextSelect]_vars

\* ------------------------------------------------------------ properties
\* C1: a triggerReproduction call that returns an offspring gives the child
\* min(Ea, 50) + min(Eb, 50) and takes min(E, 50) from each parent, Ea and Eb
\* being the parents' energies on entry.
C1_ReproductionSplit ==
    (lastRepro.n > 0 /\ lastRepro.ok) =>
        /\ lastRepro.child = Min(lastRepro.Ea, 500000) + Min(lastRepro.Eb, 500000)
        /\ lastRepro.afterA = lastRepro.Ea - Min(lastRepro.Ea, 500000)
        /\ lastRepro.afterB = lastRepro.Eb - Min(lastRepro.Eb, 500000)

\* a birth from one parent below 50 and one above
C1_Witness ==
    /\ lastRepro.n > 0 /\ lastRepro.ok
    /\ lastRepro.Ea = 125000 /\ lastRepro.Eb = 750000
    /\ lastRepro.child = 625000 /\ lastRepro.afterA = 0
    /\ lastRepro.afterB = 250000

\* C2: a successful triggerReproduction call conserves energy: the parents'
\* energies before equal the parents' energies after plus the child's; no
\* parent ends below 0 and the child is not above MAX_ENERGY.
C2_ReproductionConserves ==
    (lastRepro.n > 0 /\ lastRepro.ok) =>
        /\ lastRepro.Ea + lastRepro.Eb
             = lastRepro.afterA + lastRepro.afterB + lastRepro.child
        /\ lastRepro.afterA >= 0 /\ lastRepro.afterB >= 0
        /\ lastRepro.child <= MAX_ENERGY

\* a birth from two full parents: the child is exactly full
C2_Witness ==
    /\ lastRepro.n > 0 /\ lastRepro.ok
    /\ lastRepro.Ea = MAX_ENERGY /\ lastRepro.Eb = MAX_ENERGY
    /\ lastRepro.child = MAX_ENERGY
    /\ lastRepro.afterA = 500000 /\ lastRepro.afterB = 500000

\* C3: when the construction of the offspring fails after the deduction,
\* triggerReproduction returns no offspring and both parents have the energy
\* they had on entry.
C3_ReproductionRollback ==
    (lastRepro.n > 0 /\ lastRepro.threw) =>
        /\ ~lastRepro.ok
        /\ lastRepro.afterA = lastRepro.Ea
        /\ lastRepro.afterB = lastRepro.Eb
        /\ \A k \in 1..Len(population) :
              /\ population[k].id = lastRepro.idA
                   => population[k].energy = lastRepro.Ea
              /\ population[k].id = lastRepro.idB
                   => population[k].energy = lastRepro.Eb

\* a failed call with parents that had something to give
C3_Witness ==
    /\ lastRepro.n > 0 /\ lastRepro.threw
    /\ lastRepro.Ea = 600000 /\ lastRepro.Eb = 125000
    /\ lastRepro.afterA = 600000 /\ lastRepro.afterB = 125000

\* C4: for a pair passed to handleCrabCollision: if it does not overlap, no
\* energy changes; if it overlaps and both energies are at least
\* REPRO_ENERGY_THRESHOLD, triggerReproduction is invoked and no collision
\* cost is deducted (each parent keeps its energy or gives its share of 50);
\* otherwise, if the two approach, each loses
\* COLLISION_ENERGY_COST_FACTOR * min(|j|, 2.0), floored at 0; otherwise both
\* energies are unchanged.
C4_GateOrCost ==
    LET c == lastCollision
        cost == COLLISION_ENERGY_COST_FACTOR * Min(Abs(c.j), 200)
    IN c.branch # "none" =>
         IF ~c.overlap
         THEN c.afterA = c.Ea /\ c.afterB = c.Eb /\ c.branch = "apart"
         ELSE IF c.Ea >= REPRO_ENERGY_THRESHOLD /\ c.Eb >= REPRO_ENERGY_THRESHOLD
         THEN /\ c.branch = "repro"
              /\ IF c.threw
                 THEN c.afterA = c.Ea /\ c.afterB = c.Eb
                 ELSE c.afterA = c.Ea - 500000 /\ c.afterB = c.Eb - 500000
         ELSE IF c.approaching
         THEN /\ c.branch # "repro"
              /\ c.afterA = Max(0, c.Ea - cost)
              /\ c.afterB = Max(0, c.Eb - cost)
         ELSE /\ c.branch = "free"
              /\ c.afterA = c.Ea /\ c.afterB = c.Eb

\* an overlapping, approaching pair below the gate: one creature pays the
\* cost, the other has nothing left and stays at 0
C4_Witness ==
    /\ lastCollision.branch = "cost"
    /\ lastCollision.j > 0
    /\ lastCollision.Ea = 0 /\ lastCollision.afterA = 0
    /\ lastCollision.Eb > 0 /\ lastCollision.afterB < lastCollision.Eb

\* C5: a creature born from a collision in this tick is not in the
\* population while the pair loops and the integration loop run, and is
\* never one of the two creatures passed to handleCrabCollision in that tick.
C5_DeferredBirth ==
    /\ handled.born \cap handled.ids = {}
    /\ pc \in {"collide", "integrate"} => handled.born \cap Ids(population) = {}
    /\ pc \in {"collide", "integrate"} => handled.born = Ids(newOffspringThisFrame)

\* a newborn waits in the accumulator while a later pair is being handled
C5_Witness ==
    /\ pc = "collide"
    /\ handled.born # {}
    /\ lastCollision.branch # "repro"
    /\ Len(newOffspringThisFrame) = 1

\* C6: handleDeathsAndCulling removes exactly the creatures with energy <= 0
\* and keeps the others in their order; no other step removes a creature.
C6_DeathSweep ==
    [][/\ (pc = "deaths" /\ pc' = "idle") =>
            population' = SelectSeq(population, LAMBDA c : c.energy > 0)
       /\ pc # "deaths" => Ids(population) \subseteq Ids(population')]_vars

\* a sweep has removed one of the first creatures and left another
C6_Witness ==
    /\ pc = "idle"
    /\ globalTime > 0
    /\ population # <<>>
    /\ \E k \in 1..PopSize : k \notin Ids(population)

\* C7: between the end of a tick and the start of the next, user actions
\* included, every creature has 0 <= energy <= MAX_ENERGY.
C7_EnergyBounds ==
    pc = "idle" =>
        \A k \in 1..Len(population) :
            0 <= population[k].energy /\ population[k].energy <= MAX_ENERGY

\* after a tick and a user action: a creature at MAX_ENERGY and one at 0
C7_Witness ==
    /\ pc = "idle"
    /\ globalTime > 0
    /\ userActions > 0
    /\ \E k \in 1..Len(population) : population[k].energy = MAX_ENERGY
    /\ \E k \in 1..Len(population) : population[k].energy = 0

C9_Eating ==
    [][(pc = "food" /\ pc' = "forces") =>
          LET offered == foodLog'.offered
              log == eatLog'
          IN /\ \A e \in log, f \in log :
                   (e[1] = f[1] \/ e[2] = f[2]) => e = f
             /\ \A e \in log :
                   /\ e[1] \in Ids(population) /\ e[2] \in Ids(offered)
                   /\ e[2] \notin Ids(foodPellets')
                   /\ population'[IndexOf(population', e[1])].energy =
                        Min(population[IndexOf(population, e[1])].energy
                              + offered[IndexOf(offered, e[2])].energyValue,
                            MAX_ENERGY)
             /\ Len(population') = Len(population)
             /\ \A k \in 1..Len(population) :
                   (\A m \in 1..Len(offered) : ~Reaches(population[k], offered[m]))
                      => population'[k] = population[k]
             /\ \A m \in 1..Len(offered) :
                   (\A k \in 1..Len(population) : ~Reaches(population[k], offered[m]))
                      => \E n \in 1..Len(foodPellets') : foodPellets'[n] = offered[m]
             /\ Len(foodPellets') = Len(offered) - Cardinality(log)]_vars

\* a creature within reach of two pellets has eaten one of them and is full,
\* the other pellet is still there
C9_Witness ==
    /\ pc = "forces"
    /\ \E e \in eatLog :
         /\ \E k \in 1..Len(population) :
              population[k].id = e[1] /\ population[k].energy = MAX_ENERGY
         /\ \E m \in 1..Len(foodPellets) :
              \E k \in 1..Len(population) :
                 population[k].id = e[1] /\ Reaches(population[k], foodPellets[m])

\* C10: the slot holds at most one request; a requestCrabCreation call that
\* finds a request pending leaves it as it is; a tick that starts with a
\* pending request appends exactly one creature with BASE_ENERGY inside the
\* world and empties the slot; a tick that starts with an empty slot appends
\* none.
C10_OnePendingRequest ==
    [][/\ Len(crabCreationRequest) <= 1
       /\ (pc = "idle" /\ pc' = "idle" /\ crabCreationRequest # <<>>)
             => crabCreationRequest' = crabCreationRequest
       /\ (pc = "idle" /\ pc' = "food") =>
             /\ crabCreationRequest' = <<>>
             /\ IF crabCreationRequest # <<>>
                THEN /\ Len(population') = Len(population) + 1
                     /\ SubSeq(population', 1, Len(population)) = population
                     /\ population'[Len(population')].energy = BASE_ENERGY
                     /\ population'[Len(population')].x \in 0..W
                     /\ population'[Len(population')].y \in 0..H
                     /\ population'[Len(population')].id \notin Ids(population)
                ELSE population' = population]_vars

\* a second double tap at another place found the slot taken: the first
\* request is still the pending one
C10_Witness ==
    /\ crabCreationRequest # <<>>
    /\ lastRequest.pending
    /\ crabCreationRequest[1].x # lastRequest.x

\* C11: inside a tick the phases run in a fixed order. Food and eating are
\* over before any force is accumulated; every creature has its forces before
\* the first pair collision; the pair loops are exhausted before the first
\* integration; a creature's wall handling is applied to the result of its own
\* integration; the death sweep starts only when every creature has been
\* integrated and wall-handled.
C11_PhaseOrder ==
    /\ [](/\ pc \in {"food", "forces"} =>
               \A k \in 1..Len(population) : population[k].currentThrust = 0
          /\ pc \in {"sort", "collide"} =>
               \A k \in 1..Len(population) : population[k].currentThrust > 0
          /\ pc = "integrate" =>
               \A k \in 1..Len(population) :
                   IF k < ci THEN population[k].currentThrust = 0
                             ELSE population[k].currentThrust > 0
          /\ pc = "deaths" =>
               \A k \in 1..Len(population) : population[k].currentThrust = 0)
    /\ [][/\ pc' # pc => pc' = PhaseAfter(pc)
          /\ (foodPellets' # foodPellets \/ eatLog' # eatLog) =>
                (pc = "food" /\ pc' = "forces")
          /\ (pc = "collide" /\ pc' = "integrate") => ci > Len(population)
          /\ pc = "integrate" =>
                (handled' = handled /\ lastCollision' = lastCollision)
          /\ (pc = "integrate" /\ pc' = "integrate") =>
                /\ ci <= Len(population)
                /\ ci' = ci + 1
                /\ \E d1 \in DeflectChoices, d2 \in DeflectChoices :
                      population' = [population EXCEPT ![ci] =
                          HandleWallCollision(IntegrateCrab(@), d1, d2)]
          /\ (pc = "integrate" /\ pc' = "deaths") => ci > Len(population)]_vars

\* the integration loop has done its first creature after a frame in which a
\* pair collided and a pellet was eaten
C11_Witness ==
    /\ pc = "integrate"
    /\ ci = 2
    /\ Len(population) >= 2
    /\ handled.ids # {}
    /\ eatLog # {}

\* C12: the loop never stops: a frame that has started reaches
\* requestAnimationFrame whatever anomaly the creature carries (non-finite
\* fields, a malformed genotype); no frame ends by an exception.
C12_LoopNeverStops == probe.fn = "frame" => probe.at # "stopped"

\* C13: when one of x, y, vx, vy, omega, orientation, _fx, _fy, _torque,
\* _inertia is NaN, +Infinity or -Infinity on entry, integrateCrab leaves
\* position, velocity, orientation, omega and energy as they were and sets
\* _fx, _fy and _torque to 0.
C13_GuardAbortsNonFinite ==
    (/\ probe.fn = "frame"
     /\ probe.at = "wall"
     /\ \E k \in 1..Len(propsToCheck) :
           probe.before[propsToCheck[k]].k \in {"nan", "inf"}) =>
        /\ probe.crab.x = probe.before.x
        /\ probe.crab.y = probe.before.y
        /\ probe.crab.vx = probe.before.vx
        /\ probe.crab.vy = probe.before.vy
        /\ probe.crab.orientation = probe.before.orientation
        /\ probe.crab.omega = probe.before.omega
        /\ probe.crab.energy = probe.before.energy
        /\ probe.crab.fx = Num(0)
        /\ probe.crab.fy = Num(0)
        /\ probe.crab.torque = Num(0)

\* C14: after integrateCrab with finite inputs the orientation is in [0, 2 pi),
\* whatever the sign of the angular velocity.
C14_OrientationWrapped ==
    (/\ probe.fn = "frame"
     /\ probe.at = "wall"
     /\ \A k \in 1..Len(propsToCheck) : Finite(probe.before[propsToCheck[k]])) =>
        /\ Finite(probe.crab.orientation)
        /\ probe.crab.orientation.v >= 0
        /\ probe.crab.orientation.v < TWO_PI

\* -(RESTITUTION * 0.7 * elasticity) times v
Bounced(c, v) == -TDiv(TDiv(RESTITUTION * 70 * c.elasticity, 100) * v, 10000)

\* the creature crossed a wall of the world moving outward
CrossedX(c) == (c.x < 0 /\ c.vx < 0) \/ (c.x > W /\ c.vx > 0)

CrossedY(c) == (c.y < 0 /\ c.vy < 0) \/ (c.y > H /\ c.vy > 0)

Contained(pop) ==
    \A k \in 1..Len(pop) : pop[k].x \in 0..W /\ pop[k].y \in 0..H

\* C15 as stated: at the end of every tick every creature is inside the world;
\* a creature that crossed a wall is set on the wall and, if it was moving
\* outward, its perpendicular velocity is -(RESTITUTION * 0.7 * elasticity)
\* times the old value.
C15_ContainmentReflectAlways ==
    /\ [](pc = "idle" => Contained(population))
    /\ [][(pc = "integrate" /\ ci' = ci + 1) =>
            LET c == IntegrateCrab(population[ci])
                r == population'[ci]
            IN /\ c.x < 0 => r.x = 0
               /\ c.x > W => r.x = W
               /\ c.y < 0 => r.y = 0
               /\ c.y > H => r.y = H
               /\ CrossedX(c) => r.vx = Bounced(c, c.vx)
               /\ CrossedY(c) => r.vy = Bounced(c, c.vy)]_vars

\* C15, amended: containment as stated; the reflected velocity is exactly
\* -(RESTITUTION * 0.7 * elasticity) times the old value when one wall is
\* crossed. When an x wall and a y wall are crossed in the same frame, the y
\* velocity that is reflected already carries the deflection of the x wall, and
\* the reflected x velocity gets the deflection of the y wall added.
C15_Containment ==
    /\ [](pc = "idle" => Contained(population))
    /\ [][(pc = "integrate" /\ ci' = ci + 1) =>
            LET c == IntegrateCrab(population[ci])
                r == population'[ci]
            IN /\ c.x < 0 => r.x = 0
               /\ c.x > W => r.x = W
               /\ c.y < 0 => r.y = 0
               /\ c.y > H => r.y = H
               /\ (c.x \in 0..W /\ c.y \in 0..H) => r = c
               /\ (CrossedX(c) /\ c.y \in 0..H) => r.vx = Bounced(c, c.vx)
               /\ (CrossedY(c) /\ c.x \in 0..W) => r.vy = Bounced(c, c.vy)
               /\ (CrossedX(c) /\ CrossedY(c)) =>
                     \E d1 \in DeflectChoices, d2 \in DeflectChoices :
                        LET vy1 == c.vy + Deflection(d1, c.vx)
                        IN /\ r.vy = IF (c.y < 0 /\ vy1 < 0) \/ (c.y > H /\ vy1 > 0)
                                     THEN Bounced(c, vy1) ELSE vy1
                           /\ r.vx = IF (c.y < 0 /\ vy1 < 0) \/ (c.y > H /\ vy1 > 0)
                                     THEN Bounced(c, c.vx) + Deflection(d2, vy1)
                                     ELSE Bounced(c, c.vx)]_vars

\* a creature was set into the bottom right corner and sent back, and an
\* offspring waits to be added
C15_Witness ==
    /\ pc = "integrate"
    /\ \E k \in 1..Len(population) :
          /\ k < ci
          /\ population[k].x = W /\ population[k].y = H
          /\ population[k].vx < 0 /\ population[k].vy < 0

\* the circles of the pair overlap: dist < rA + rB
Overlapping(A, B) == DistSq(A, B) < (A.radius + B.radius) * (A.radius + B.radius)

\* (rA + rB - dist) * COLLISION_REPULSION / 2
HalfPush(A, B) ==
    TDiv(COLLISION_REPULSION * (A.radius + B.radius - Sqrt(DistSq(A, B))), 200)

\* C16: for every overlapping pair, approaching or not, A is moved by -push
\* along the contact normal and B by +push, push = (rA + rB - dist) *
\* COLLISION_REPULSION / 2; when the pair is not approaching, the velocities
\* and the angular velocities of both are unchanged.
C16_PositionalCorrection ==
    (probe.fn = "pair" /\ probe.at = "done" /\ Overlapping(probe.A, probe.B)) =>
        LET A == probe.A
            B == probe.B
            A2 == probe.afterA[1]
            B2 == probe.afterB[1]
            d == Sqrt(DistSq(A, B))
            px == IF d = 0 THEN 0 ELSE TDiv(HalfPush(A, B) * (B.x - A.x), d)
            py == IF d = 0 THEN 0 ELSE TDiv(HalfPush(A, B) * (B.y - A.y), d)
        IN /\ A2.x = A.x - px /\ A2.y = A.y - py
           /\ B2.x = B.x + px /\ B2.y = B.y + py
           /\ ApproachDot(A, B) >= 0 =>
                 /\ A2.vx = A.vx /\ A2.vy = A.vy /\ A2.omega = A.omega
                 /\ B2.vx = B.vx /\ B2.vy = B.vy /\ B2.omega = B.omega

\* an overlapping pair that moves apart has been pushed
C16_Witness ==
    /\ probe.fn = "pair" /\ probe.at = "done"
    /\ Overlapping(probe.A, probe.B)
    /\ ApproachDot(probe.A, probe.B) > 0
    /\ probe.afterA[1].x < probe.A.x
    /\ probe.afterB[1].x > probe.B.x

\* C17: two overlapping creatures of equal radius and elasticity that meet
\* head-on with v and -v along the contact normal, at effective restitution
\* e = 1, leave with -v and +v; in every collision vA + vB is unchanged.
C17_CollisionSymmetry ==
    (probe.fn = "pair" /\ probe.at = "done") =>
        LET A == probe.A
            B == probe.B
            A2 == probe.afterA[1]
            B2 == probe.afterB[1]
        IN /\ A2.vx + B2.vx = A.vx + B.vx
           /\ A2.vy + B2.vy = A.vy + B.vy
           /\ (/\ Overlapping(A, B)
               /\ A.radius = B.radius /\ A.elasticity = B.elasticity
               /\ RESTITUTION * (A.elasticity + B.elasticity) = 2 * 100 * 100
               /\ B.vx = -A.vx /\ B.vy = -A.vy
               /\ A.vy = 0 /\ B.y = A.y
               /\ ApproachDot(A, B) < 0) =>
                 /\ A2.vx = -A.vx /\ A2.vy = -A.vy
                 /\ B2.vx = -B.vx /\ B2.vy = -B.vy

\* the head-on pair at e = 1 has exchanged its velocities
C17_Witness ==
    /\ probe.fn = "pair" /\ probe.at = "done"
    /\ probe.A.elasticity = 200 /\ probe.B.elasticity = 200
    /\ probe.A.vx = 300 /\ probe.B.vx = -300
    /\ probe.B.x = 5000 /\ probe.B.y = 5000
    /\ probe.afterA[1].vx = -300
    /\ probe.afterB[1].vx = 300

C19_CrossoverClosure ==
    (probe.fn = "breed" /\ probe.at \in {"mutate", "done"}) =>
        /\ probe.heap[1] = probe.a0
        /\ probe.heap[2] = probe.b0
        /\ probe.child \notin {1, 2}
        /\ probe.at = "mutate" =>
             LET child == probe.heap[probe.child]
             IN /\ Length(child) = Length(probe.a0)
                /\ Length(child) = Length(probe.b0)
                /\ DOMAIN child = DOMAIN probe.a0
                /\ \A i \in DOMAIN child : child[i] \in {probe.a0[i], probe.b0[i]}

\* a child that took genes from both parents was mutated and differs from both
C19_Witness ==
    /\ probe.fn = "breed" /\ probe.at = "done"
    /\ probe.a0 # probe.b0
    /\ probe.heap[probe.child] # probe.a0
    /\ probe.heap[probe.child] # probe.b0
    /\ probe.heap[probe.child][0] # probe.heap[probe.child][0 + 1]

\* C20: after mutate(g) the sides gene is an integer in 3..8, every colour
\* channel is in [0, 255], both symmetry factors are in [0, 1], the frequency
\* is at least 1 and the amplitude at least 0.5; mutate works in place and
\* returns the vector it was given.
C20_MutationClamps ==
    (probe.fn = "breed" /\ probe.at = "done") =>
        LET g == probe.heap[probe.result]
            G == GENE(LIMB_COUNT)
        IN /\ probe.result = probe.child
           /\ Len(probe.heap) = 3
           /\ g[G.SIDES] \in {300, 400, 500, 600, 700, 800}
           /\ \A c \in ColourGenes(LIMB_COUNT) : g[c] >= 0 /\ g[c] <= 25500
           /\ g[G.BODY_SYM] >= 0 /\ g[G.BODY_SYM] <= 100
           /\ g[G.MOVE_SYM] >= 0 /\ g[G.MOVE_SYM] <= 100
           /\ g[G.FREQ] >= 100
           /\ g[G.AMP] >= 50

\* a mutation pushed the sides above 8, a colour above 255, the body symmetry
\* above 1 and left the amplitude below 0.5: all four were clamped
C20_Witness ==
    /\ probe.fn = "breed" /\ probe.at = "done"
    /\ probe.b0[54] = 130
    /\ probe.heap[probe.result][53] = 800
    /\ probe.heap[probe.result][54] = 100
    /\ probe.heap[probe.result][56] = 25500
    /\ probe.heap[probe.result][44] = 50

\* C21: after mutate(g) each of the three colour channels is a whole number
\* (clamped to [0, 255] and rounded), also when the channel was perturbed by
\* an amount that is not whole.
C21_ColoursWhole ==
    (probe.fn = "breed" /\ probe.at = "done") =>
        \A c \in ColourGenes(LIMB_COUNT) :
            LET v == probe.heap[probe.result][c]
            IN v >= 0 /\ v <= 25500 /\ v % 100 = 0

\* the limb values and attach fractions of the left half
LeftHalf(g) ==
    [j \in {3 + i * 5 + k : i \in 0..((LIMB_COUNT \div 2) - 1), k \in 0..4}
             \cup {45 + i : i \in 0..((LIMB_COUNT \div 2) - 1)} |-> g[j]]

\* the limb values (base angle, length, branch angle, length ratio) and attach
\* fractions of the right half
RightHalf(g) ==
    [j \in {3 + (i + LIMB_COUNT \div 2) * 5 + k :
                i \in 0..((LIMB_COUNT \div 2) - 1), k \in 0..3}
             \cup {45 + i + LIMB_COUNT \div 2 : i \in 0..((LIMB_COUNT \div 2) - 1)}
        |-> g[j]]

\* C22: with body-symmetry factor 1 a second application of applyBodySymmetry
\* changes nothing: the right-half limb values and attach fractions are the
\* same after the first and after the second application; the left half is
\* never changed by an application.
C22_SymmetryIdempotent ==
    probe.fn = "symmetry" =>
        /\ LeftHalf(probe.g) = LeftHalf(probe.g0)
        /\ (probe.applied = 2 /\ probe.g0[54] >= 100) =>
              /\ RightHalf(probe.g) = RightHalf(probe.prev)
              /\ probe.g = probe.prev

\* factor 1, the first application changed the right half, the second ran
C22_Witness ==
    /\ probe.fn = "symmetry"
    /\ probe.applied = 2
    /\ probe.g0[54] >= 100
    /\ RightHalf(probe.prev) # RightHalf(probe.g0)
    /\ RightHalf(probe.g) = RightHalf(probe.prev)

\* the ranges mutate clamps sides, symmetry, colours and the five trait genes to
InRanges(g) ==
    LET G == GENE(LIMB_COUNT)
    IN /\ g[G.SIDES] \in {300, 400, 500, 600, 700, 800}
       /\ g[G.BODY_SYM] >= 0 /\ g[G.BODY_SYM] <= 100
       /\ g[G.MOVE_SYM] >= 0 /\ g[G.MOVE_SYM] <= 100
       /\ \A c \in ColourGenes(LIMB_COUNT) : g[c] >= 0 /\ g[c] <= 25500
       /\ g[G.DRAG_MOD] >= 50 /\ g[G.DRAG_MOD] <= 150
       /\ g[G.ROT_DRAG_MOD] >= 70 /\ g[G.ROT_DRAG_MOD] <= 130
       /\ g[G.ELASTICITY] >= 80 /\ g[G.ELASTICITY] <= 120
       /\ g[G.TORQUE_EFF] >= 80 /\ g[G.TORQUE_EFF] <= 120
       /\ g[G.POWER_RATIO] >= 80 /\ g[G.POWER_RATIO] <= 150

\* C23: after any sequence of creation, reproduction, cloning and manual
\* mutation every creature's genotype has sides an integer in [3, 8], both
\* symmetry factors in [0, 1], every colour channel in [0, 255] and the drag,
\* rotational-drag, elasticity, torque-efficiency and power-ratio genes in the
\* ranges mutate clamps them to.
C23_GenotypeRanges == probe.fn = "lineage" => InRanges(probe.g)

\* C24: after deleteCrab(c) has set c.energy to 0, the death sweep of the next
\* tick removes c, wherever the pellets are: between two ticks the creature
\* the delete button was pressed for (it is the one deselected) is either
\* gone or has just been deleted and still holds energy 0.
C24_DeleteTakesEffect ==
    (probe.fn = "delete" /\ pc = "idle") =>
        \A k \in 1..Len(population) :
            (population[k].id = probe.id /\ ~population[k].selected)
                => population[k].energy = 0

\* C25: the early exit of the pair scan is a pure optimisation: when the scan
\* for creature i stops at a creature j whose left bound lies beyond i's right
\* bound, no creature from j on overlaps creature i, so every overlapping
\* pair is passed to handleCrabCollision.
C25_EarlyExitSkipsNoOverlap ==
    (/\ pc = "collide"
     /\ ci <= Len(population)
     /\ cj <= Len(population)
     /\ TooFarRight(population[ci], population[cj]))
        => \A later \in cj..Len(population) :
               ~Colliding(population[ci], population[later])

\* the living energy, the energy of the offspring waiting in the accumulator
\* of updateMovement included
TotalEnergy(pop, pellets, born) ==
    LivingEnergy(pop, pellets) + EnergySum(born, Len(born))

\* what the energies of the creatures at or below zero add up to
RECURSIVE Debt(_, _)
Debt(pop, k) ==
    IF k = 0 THEN 0
    ELSE (IF pop[k].energy <= 0 THEN pop[k].energy ELSE 0) + Debt(pop, k - 1)

\* the living energy at the start of a tick is below target plus one pellet
EnergyBelowBound ==
    pc = "idle" =>
        LivingEnergy(population, foodPellets) < TargetEnergy + FOOD_ENERGY_VALUE

C27_OneReproductionPerParent ==
    /\ [](pc \in {"collide", "integrate"} =>
            2 * Len(newOffspringThisFrame) <= Len(population))
    /\ [][pc = "collide" =>
            /\ Len(population') = Len(population)
            /\ \A k \in 1..Len(population) :
                   population'[k].energy <= population[k].energy
            /\ (lastRepro'.n = lastRepro.n + 1 /\ lastRepro'.ok) =>
                   /\ lastRepro'.Ea >= REPRO_ENERGY_THRESHOLD
                   /\ lastRepro'.Eb >= REPRO_ENERGY_THRESHOLD
                   /\ lastRepro'.afterA <= MAX_ENERGY \div 2
                   /\ lastRepro'.afterB <= MAX_ENERGY \div 2
                   /\ lastRepro'.afterA < REPRO_ENERGY_THRESHOLD
                   /\ lastRepro'.afterB < REPRO_ENERGY_THRESHOLD]_vars

\* a parent of this pass overlapped a third creature that could reproduce,
\* and the call did not reproduce
C27_Witness ==
    /\ pc = "collide"
    /\ Len(population) = 3
    /\ Len(newOffspringThisFrame) = 1
    /\ lastRepro.ok
    /\ lastCollision.overlap
    /\ lastCollision.branch \in {"cost", "free"}
    /\ {lastCollision.a, lastCollision.b} \cap {lastRepro.idA, lastRepro.idB} # {}
    /\ lastCollision.Ea >= REPRO_ENERGY_THRESHOLD \/ lastCollision.Eb >= REPRO_ENERGY_THRESHOLD

\* C28: a creature with finite state that eats no pellet loses at least
\* BASAL_METABOLISM_COST * TIME_STEP energy in every tick, no step raises its
\* energy, and a death sweep eventually removes it from the population.
C28_StarvationInevitable ==
    /\ [][(probe.fn = "starve" /\ probe.at # "deaths") =>
            /\ probe'.pop[1].energy <= probe.pop[1].energy
            /\ probe.at = "integrate" =>
                 probe'.pop[1].energy
                    <= probe.pop[1].energy - TDiv(BASAL_METABOLISM_COST, DT_DIV)]_vars
    /\ <>(probe.fn = "starve" /\ probe.pop = <<>>)

\* a creature that lived through several frames is gone
C28_Witness ==
    /\ probe.fn = "starve"
    /\ probe.start = 100000
    /\ probe.pop = <<>>

\* C29: after any sequence of taps, clone, delete, cancel, manual-breed
\* actions and ticks at most two creatures of the population are selected;
\* a tap on an unselected creature while two are selected deselects all
\* others; every creature that enters the population (from a collision, a
\* manual breed, a clone, a creation request) is unselected.
C29_SelectionBound ==
    /\ [](SelCount(population) <= 2)
    /\ [][/\ \A k \in 1..Len(population') :
                population'[k].id \notin Ids(population)
                    => ~population'[k].selected
          /\ \A k \in 1..Len(newOffspringThisFrame') :
                ~newOffspringThisFrame'[k].selected
          /\ (/\ probe' # probe
              /\ SelCount(population) >= 2
              /\ probe'.tapped # 0
              /\ probe'.tapped \notin probe'.before)
                => Ids(SelectedSeq(population')) = {probe'.tapped}]_vars

\* the third tap fell on the unselected creature while two were selected
C29_Witness ==
    /\ probe.fn = "select"
    /\ probe.taps = 3
    /\ Cardinality(probe.before) = 2
    /\ probe.tapped # 0
    /\ probe.tapped \notin probe.before
    /\ Ids(SelectedSeq(population)) = {probe.tapped}
    /\ Len(population) >= 3

\* C30: in exact arithmetic handleCrabCollision leaves omega of both creatures
\* unchanged for every overlapping pair: the contact offset (radius times the
\* normal) is parallel to the impulse (j times the normal), so the torque is
\* zero, and the glancing factor 1 - |n.d| / dist is zero as well when the
\* centres differ.
C30_NoSpinFromCollision ==
    (probe.fn = "pair" /\ probe.at = "done" /\ Overlapping(probe.A, probe.B)) =>
        /\ probe.spin[1].torqueA = 0
        /\ probe.spin[1].torqueB = 0
        /\ DistSq(probe.A, probe.B) # 0 => probe.spin[1].glancing.num = 0

\* an oblique contact of an approaching pair with an impulse
C30_Witness ==
    /\ probe.fn = "pair" /\ probe.at = "done"
    /\ Overlapping(probe.A, probe.B)
    /\ ApproachDot(probe.A, probe.B) < 0
    /\ Impulse(probe.A, probe.B) # 0
    /\ probe.B.y # probe.A.y
    /\ probe.B.x # probe.A.x
    /\ probe.spin[1].torqueA = 0
    /\ probe.afterA[1].vx # probe.A.vx

====
